---- MODULE Spec2Model ----
(***************************************************************************)
(* Task-agent orchestration of packages/core: handleAgentSpawn             *)
(* (core/agent-handler.ts) and TaskAgentRunner (core/task-agent-runner.ts).*)
(*                                                                         *)
(* Scheduling model.  The code runs on the JavaScript event loop: a piece  *)
(* of code runs to completion until it awaits an external operation (the   *)
(* registry of the configuration, a Turn's event stream, a capability's    *)
(* execute).  Timer callbacks are macrotasks, so they run only while every *)
(* computation of the session is suspended at such an await.  One action   *)
(* of the model is therefore one macrotask: the completion of an awaited   *)
(* operation (or the firing of a timer) together with all the code, and    *)
(* all promise continuations, that run before the next await.              *)
(***************************************************************************)
EXTENDS Integers, Sequences, FiniteSets, TLC

(***************************************************************************)
(* Bounds of the model and constants of the program.                       *)
(***************************************************************************)
MaxTurnsBound == 2
MaxBatch == 2
WarningLeadMs == 30000
TimeoutChoices == {100, 40000}

Max(a, b) == IF a >= b THEN a ELSE b

Null == [tag |-> "null"]

(***************************************************************************)
(* Texts and JSON.  A text is the empty string, a text that is not JSON,   *)
(* or the serialisation of a JSON value.  JSON objects are functions from  *)
(* field names to field values; a field value is [t, v] with v a string    *)
(* (booleans are "true"/"false").                                          *)
(***************************************************************************)
EmptyText == [t |-> "empty"]
RawText(s) == [t |-> "raw", s |-> s]
JStr(s) == [t |-> "str", v |-> s]
JBool(b) == [t |-> "bool", v |-> IF b THEN "true" ELSE "false"]
JUndefined == [t |-> "undefined", v |-> ""]
JNull == [t |-> "null", v |-> ""]
JNum(n) == [t |-> "num", v |-> ToString(n)]

\* The text of a JSON value; JSON.stringify of an object leaves out the
\* properties whose value is undefined.
JSONtext(value) == [t |-> "json", v |-> value]
JSONstringify(obj) ==
  JSONtext([name \in {n \in DOMAIN obj : obj[n].t # "undefined"} |-> obj[name]])
ParseError == [t |-> "SyntaxError"]
JSONparse(text) == IF text.t = "json" THEN text.v ELSE ParseError
\* parsed.name: undefined for a property the value does not have (a primitive
\* has none of them); on null the access throws a TypeError.
Field(obj, name) == IF name \in DOMAIN obj THEN obj[name] ELSE JUndefined
ThrowsOnAccess(parsed) == parsed = JNull

(***************************************************************************)
(* AgentReturnSignal / TaskAgentResult values.                             *)
(***************************************************************************)
Signal(s, d, r) == [success |-> s, description |-> d, result |-> r]
SigDone == Signal(JBool(TRUE), JStr("done"), JStr("42"))
SigGaveUp == Signal(JBool(FALSE), JStr(""), JStr(""))
Signals == {SigDone, SigGaveUp}

DefaultFailure ==
  Signal(JBool(FALSE),
         JStr("Agent failed to complete task within time limit and did not provide a summary."),
         JStr(""))
ExecFailure(errorMessage) ==
  Signal(JBool(FALSE), JStr("Agent failed to execute: " \o errorMessage), JStr(""))

(***************************************************************************)
(* Faults: what a throw of the environment carries.                        *)
(***************************************************************************)
Fault(isError, message) == [isError |-> isError, message |-> message]
Faults == {Fault(TRUE, "boom"), Fault(TRUE, "Agent timeout"), Fault(FALSE, "boom")}

(***************************************************************************)
(* ReturnFromTaskTool.execute: the payload is one text part holding        *)
(* JSON.stringify({type: 'agent_return', ...params}).                      *)
(***************************************************************************)
Parts(text) == [shape |-> "parts", text |-> text]
ReturnFromTaskExecute(params) ==
  [llmContent |-> Parts(JSONstringify(
      [type |-> JStr("agent_return"), success |-> params.success,
       description |-> params.description, result |-> params.result]))]

(***************************************************************************)
(* checkForAgentReturn: the text of the first part, parsed; a return       *)
(* signal when the parsed value has type 'agent_return', null otherwise    *)
(* (also when parsing throws).                                             *)
(***************************************************************************)
checkForAgentReturn(response) ==
  LET textContent == IF response.shape \in {"parts", "part"} THEN response.text ELSE EmptyText
  IN IF textContent.t = "empty" THEN Null
     ELSE LET parsed == JSONparse(textContent)
          IN IF parsed = ParseError \/ ThrowsOnAccess(parsed) THEN Null
             ELSE IF Field(parsed, "type") = JStr("agent_return")
                  THEN Signal(Field(parsed, "success"), Field(parsed, "description"),
                              Field(parsed, "result"))
                  ELSE Null

(***************************************************************************)
(* checkForAgentReturn of the runner that reports status updates: the same *)
(* decoding, with defaults for the fields (success ?? false,               *)
(* description || 'No description provided', result || '').                *)
(***************************************************************************)
Nullish(value) == value.t \in {"undefined", "null"}
Falsy(value) ==
  \/ Nullish(value)
  \/ value.t = "str" /\ value.v = ""
  \/ value.t = "bool" /\ value.v = "false"
  \/ value.t = "num" /\ value.v = "0"
checkForAgentReturnDefaulting(response) ==
  LET textContent == IF response.shape \in {"parts", "part"} THEN response.text ELSE EmptyText
  IN IF textContent.t = "empty" THEN Null
     ELSE LET parsed == JSONparse(textContent)
          IN IF parsed = ParseError \/ ThrowsOnAccess(parsed) THEN Null
             ELSE IF Field(parsed, "type") = JStr("agent_return")
                  THEN Signal(IF Nullish(Field(parsed, "success")) THEN JBool(FALSE)
                              ELSE Field(parsed, "success"),
                              IF Falsy(Field(parsed, "description"))
                              THEN JStr("No description provided")
                              ELSE Field(parsed, "description"),
                              IF Falsy(Field(parsed, "result")) THEN JStr("")
                              ELSE Field(parsed, "result"))
                  ELSE Null

(***************************************************************************)
(* TaskAgentTool.execute (the marker-emitting one): one text part holding  *)
(* JSON.stringify of the spawn request, maxTurns and timeoutMs defaulted   *)
(* with ??.                                                                *)
(***************************************************************************)
DefaultMaxTurns == 20
DefaultTimeoutMs == 300000

\* Mutant: the defaults are applied with || instead of ??.
TaskAgentExecuteOrDefaults(params) ==
  [llmContent |-> Parts(JSONstringify(
      [type |-> JStr("spawn_agent"), task |-> params.task, prompt |-> params.prompt,
       maxTurns |-> IF Falsy(params.maxTurns) THEN JNum(DefaultMaxTurns) ELSE params.maxTurns,
       timeoutMs |-> IF Falsy(params.timeoutMs) THEN JNum(DefaultTimeoutMs)
                     ELSE params.timeoutMs]))]

TaskAgentExecute(params) ==
  [llmContent |-> Parts(JSONstringify(
      [type |-> JStr("spawn_agent"), task |-> params.task, prompt |-> params.prompt,
       maxTurns |-> IF Nullish(params.maxTurns) THEN JNum(DefaultMaxTurns) ELSE params.maxTurns,
       timeoutMs |-> IF Nullish(params.timeoutMs) THEN JNum(DefaultTimeoutMs)
                     ELSE params.timeoutMs]))]

(***************************************************************************)
(* isAgentSpawnRequest: the first of the response parts, taken as text     *)
(* when it is a string or has a text; the parsed value itself when its     *)
(* type is 'spawn_agent', null otherwise (also when anything throws).      *)
(* A response carries a capability's payload as its responseParts.         *)
(***************************************************************************)
ToolResponse(llmContent) == [responseParts |-> llmContent]
\* The shapes of a PartListUnion whose first element gives a text: a part
\* list, a single part, a string, a list of strings.
TextShapes == {"parts", "part", "string", "stringParts"}
isAgentSpawnRequest(response) ==
  LET parts == response.responseParts
      text == IF parts.shape \in TextShapes THEN parts.text ELSE EmptyText
  IN IF text.t = "empty" THEN Null
     ELSE LET parsed == JSONparse(text)
          IN IF parsed = ParseError \/ ThrowsOnAccess(parsed) THEN Null
             ELSE IF Field(parsed, "type") = JStr("spawn_agent") THEN parsed ELSE Null

(***************************************************************************)
(* Tool registries.  A tool instance is [name, owner]: the name it is      *)
(* registered under and the construction that made the object ("parent"    *)
(* for the instances the parent registry holds, the session for the        *)
(* ReturnFromTaskTool its run constructs).  A ToolRegistry maps names to   *)
(* instances; it is modelled by the sequence getAllTools gives, which      *)
(* holds a name at most once because registerTool replaces the entry of a  *)
(* name already present.                                                   *)
(***************************************************************************)
Tool(name, owner) == [name |-> name, owner |-> owner]
getAllTools(registry) == registry
ToolNames(registry) == {registry[i].name : i \in 1..Len(registry)}
getTool(registry, name) ==
  IF name \in ToolNames(registry)
  THEN registry[CHOOSE i \in 1..Len(registry) : registry[i].name = name]
  ELSE Null
registerTool(registry, tool) ==
  IF tool.name \in ToolNames(registry)
  THEN [i \in 1..Len(registry) |-> IF registry[i].name = tool.name THEN tool ELSE registry[i]]
  ELSE Append(registry, tool)

(***************************************************************************)
(* createAgentToolRegistry: a new registry that receives every tool        *)
(* instance of the parent registry except task_agent, then a new           *)
(* ReturnFromTaskTool.                                                     *)
(***************************************************************************)
RECURSIVE CopyParentTools(_, _, _)
CopyParentTools(allTools, i, copied) ==
  IF i > Len(allTools) THEN copied
  ELSE CopyParentTools(allTools, i + 1,
                       IF allTools[i].name # "task_agent"
                       THEN registerTool(copied, allTools[i]) ELSE copied)

\* Mutant: the parent's tools are copied without the task_agent filter.
createAgentToolRegistryCopyAll(parentRegistry, session) ==
  registerTool(parentRegistry, Tool("return_from_task", session))

createAgentToolRegistry(parentRegistry, session) ==
  registerTool(CopyParentTools(getAllTools(parentRegistry), 1, <<>>),
               Tool("return_from_task", session))

\* The parent registry of the session that Spec follows.
ParentRegistry == <<Tool("read_file", "parent"), Tool("task_agent", "parent")>>

(***************************************************************************)
(* What a Turn can produce: accumulated content and a batch of capability  *)
(* requests; what a capability's execute can produce.                      *)
(***************************************************************************)
Contents == {"", "  ", "Working on task..."}
Trim(s) == IF s = "  " THEN "" ELSE s

ToolCalls ==
  {[name |-> "return_from_task", args |-> SigDone],
   [name |-> "read_file", args |-> Null],
   [name |-> "ghost", args |-> Null]}
Batches == UNION {[1..n -> ToolCalls] : n \in 0..MaxBatch}
WithCallIds(batch) ==
  [i \in 1..Len(batch) |-> [name |-> batch[i].name, args |-> batch[i].args, callId |-> i]]

Returned(result) == [k |-> "ok", result |-> result, fault |-> Null]
Threw(fault) == [k |-> "throw", result |-> Null, fault |-> fault]
ExecuteOutcomes(toolCall) ==
  IF toolCall.name = "return_from_task"
  THEN {Returned(ReturnFromTaskExecute(toolCall.args))}
  ELSE {Returned([llmContent |-> Parts(RawText("file content"))]),
        Returned([llmContent |-> Parts(JSONstringify(
            [type |-> JStr("agent_return"), success |-> SigGaveUp.success,
             description |-> SigGaveUp.description, result |-> SigGaveUp.result]))]),
        Threw(Fault(TRUE, "ENOENT"))}

(***************************************************************************)
(* processToolCalls, one entry per request in request order.  The entries  *)
(* of requests that name no registered tool are pushed without awaiting;   *)
(* ProcessFrom runs the for loop from request i up to the next execute     *)
(* that is awaited (idx <= Len) or to the end of the batch (idx > Len).    *)
(***************************************************************************)
\* Mutant: the not-found error does not name the tool.
NotFoundEntryNoName(toolCall) ==
  [result |-> Null, error |-> JStr("Tool not found"), toolCall |-> toolCall]

NotFoundEntry(toolCall) ==
  [result |-> Null, error |-> JStr("Tool " \o toolCall.name \o " not found"), toolCall |-> toolCall]
\* Mutant: the error of an entry is String(error), not the fault's message.
OutcomeEntryStringOfError(toolCall, outcome) ==
  IF outcome.k = "ok"
  THEN [result |-> outcome.result, error |-> JUndefined, toolCall |-> toolCall]
  ELSE [result |-> Null,
        error |-> JStr("Error: " \o outcome.fault.message),
        toolCall |-> toolCall]

OutcomeEntry(toolCall, outcome) ==
  IF outcome.k = "ok"
  THEN [result |-> outcome.result, error |-> JUndefined, toolCall |-> toolCall]
  ELSE [result |-> Null,
        error |-> JStr(outcome.fault.message),
        toolCall |-> toolCall]

\* Mutant: the entries of requests that name no registered tool are put in
\* front of the entries pushed so far.
RECURSIVE ProcessFromNotFoundFirst(_, _, _, _)
ProcessFromNotFoundFirst(registry, toolCalls, i, results) ==
  IF i > Len(toolCalls) THEN [idx |-> i, results |-> results]
  ELSE IF getTool(registry, toolCalls[i].name) = Null
       THEN ProcessFromNotFoundFirst(registry, toolCalls, i + 1,
                                     <<NotFoundEntry(toolCalls[i])>> \o results)
       ELSE [idx |-> i, results |-> results]

RECURSIVE ProcessFrom(_, _, _, _)
ProcessFrom(registry, toolCalls, i, results) ==
  IF i > Len(toolCalls) THEN [idx |-> i, results |-> results]
  ELSE IF getTool(registry, toolCalls[i].name) = Null
       THEN ProcessFrom(registry, toolCalls, i + 1, Append(results, NotFoundEntry(toolCalls[i])))
       ELSE [idx |-> i, results |-> results]

(***************************************************************************)
(* The scan of the outcomes for the agent return marker (the for loop of   *)
(* runAgentTurns and of requestAgentSummary): the first outcome, in        *)
(* request order, that has content and that checkForAgentReturn decodes.   *)
(***************************************************************************)
Truthy(llmContent) == ~(llmContent.shape = "string" /\ llmContent.text = EmptyText)
\* Mutant: the scan keeps going and yields the last outcome that decodes.
RECURSIVE ScanForReturnLast(_, _)
ScanForReturnLast(toolResults, i) ==
  IF i > Len(toolResults) THEN Null
  ELSE LET r == toolResults[i]
           agentReturn == IF r.result # Null /\ Truthy(r.result.llmContent)
                          THEN checkForAgentReturn(r.result.llmContent) ELSE Null
           later == ScanForReturnLast(toolResults, i + 1)
       IN IF later # Null THEN later ELSE agentReturn

RECURSIVE ScanForReturn(_, _)
ScanForReturn(toolResults, i) ==
  IF i > Len(toolResults) THEN Null
  ELSE LET r == toolResults[i]
           agentReturn == IF r.result # Null /\ Truthy(r.result.llmContent)
                          THEN checkForAgentReturn(r.result.llmContent) ELSE Null
       IN IF agentReturn # Null THEN agentReturn ELSE ScanForReturn(toolResults, i + 1)

(***************************************************************************)
(* Outbound messages.                                                      *)
(***************************************************************************)
TextMessage(kind) == [kind |-> kind, warned |-> FALSE, parts |-> <<>>]
TaskMessage == TextMessage("task")
NudgeReturnMessage == TextMessage("continueOrReturn")
NudgeContinueMessage == TextMessage("continue")
SummaryPrompt == TextMessage("summaryPrompt")

RECURSIVE ResponseParts(_, _)
ResponseParts(toolResults, i) ==
  IF i > Len(toolResults) THEN <<>>
  ELSE LET r == toolResults[i]
           rest == ResponseParts(toolResults, i + 1)
       IN IF r.error.t = "str" /\ r.error.v # ""
          THEN <<[name |-> r.toolCall.name, callId |-> r.toolCall.callId,
                  response |-> JStr("Error: " \o r.error.v)]>> \o rest
          ELSE IF r.result # Null
               THEN <<[name |-> r.toolCall.name, callId |-> r.toolCall.callId,
                       response |-> r.result.llmContent]>> \o rest
               ELSE rest
ResponsesMessage(toolResults) ==
  [kind |-> "functionResponses", warned |-> FALSE, parts |-> ResponseParts(toolResults, 1)]

AddWarning(lastMessage) ==
  IF lastMessage.kind # "functionResponses"
  THEN [lastMessage EXCEPT !.warned = TRUE]
  ELSE [kind |-> "warningOnly", warned |-> TRUE, parts |-> <<>>]

(***************************************************************************)
(* State.                                                                  *)
(*   hpc            where handleAgentSpawn / TaskAgentRunner.run stands    *)
(*   maxTurns, timeoutMs   the request's limits                            *)
(*   agentRegistry  this.agentRegistry                                     *)
(*   warningFired, warningTimeout   the warning flag and its timer         *)
(*   deadlineTimer  the timer of timeoutPromise                            *)
(*   race           how Promise.race settled                               *)
(*   loop           the runAgentTurns computation                          *)
(*   summary        the requestAgentSummary computations, by caller        *)
(*   handlerResult  what handleAgentSpawn resolved with                    *)
(*   registryFault  what createAgentToolRegistry threw, if it did          *)
(***************************************************************************)
VARIABLES hpc, maxTurns, timeoutMs, agentRegistry, warningFired, warningTimeout,
          deadlineTimer, race, loop, summary, handlerResult, registryFault

sessionVars == <<hpc, maxTurns, timeoutMs, agentRegistry, warningFired, warningTimeout,
                 deadlineTimer, race, loop, summary, handlerResult, registryFault>>

(***************************************************************************)
(* State of the registries of a parent and its sub-agent sessions          *)
(* (RegistrySpec).                                                         *)
(*   parentRegistry   the registry config.getToolRegistry() gives          *)
(*   sessionRegistry  the agentRegistry of each sub-agent session's        *)
(*                    runner, <<>> before its run builds it                *)
(*   taskCounter      the taskCounter of the task tracker instance of each *)
(*                    owner                                                *)
(***************************************************************************)
VARIABLES parentRegistry, sessionRegistry, taskCounter

registryVars == <<parentRegistry, sessionRegistry, taskCounter>>

Sessions == {"s1", "s2"}
Owners == {"parent"} \cup Sessions

(***************************************************************************)
(* State of one use of the signalling protocol (CodecSpec).                *)
(*   origin   what made the payload: the capability and the parameters it  *)
(*            was executed with, or "other" for any other payload          *)
(*   payload  the llmContent under decoding                                *)
(*   decoded  what the decoders returned for it                            *)
(***************************************************************************)
VARIABLES origin, payload, decoded

codecVars == <<origin, payload, decoded>>

(***************************************************************************)
(* State of the conversation histories (HistorySpec).  An array is an      *)
(* object: two references to one array see each other's pushes.            *)
(*   arrays         the Content[] arrays allocated so far, by reference    *)
(*   parentHistory  the reference handed to the TaskAgentRunner            *)
(*                  constructor of every session                           *)
(*   chatHistory    the reference each session's agentChat was constructed *)
(*                  with, 0 before its run constructs the chat             *)
(***************************************************************************)
VARIABLES arrays, parentHistory, chatHistory

historyVars == <<arrays, parentHistory, chatHistory>>

(***************************************************************************)
(* State of the formatting of a session's result (FormatSpec).             *)
(*   agentResult  the result handleAgentSpawn resolved with                *)
(*   formatted    what formatAgentResult returned for it, with the task    *)
(*                label it was given                                       *)
(***************************************************************************)
VARIABLES agentResult, formatted

formatVars == <<agentResult, formatted>>

(***************************************************************************)
(* State of a run of the runner that reports status updates, followed      *)
(* twice on the same Turn responses and capability outcomes: once with no  *)
(* onStatusUpdate, once with one attached (TurnSpec).                      *)
(*   observed  for each of the two, where run stands (pc), turnsRemaining, *)
(*             the status messages delivered (log), the capabilities       *)
(*             invoked, the last batch with its results and the outbound   *)
(*             message built from them (next), the result run resolved     *)
(*             with and the error it rejected with                         *)
(***************************************************************************)
VARIABLES observed

turnVars == <<observed>>

(***************************************************************************)
(* State of one call of the file capability (FileSpec).                    *)
(*   fileTool     the class whose execute is called                        *)
(*   fileRequest  the arguments of the call                                *)
(*   fileOutcome  how the call ended: what it returned or threw, whether   *)
(*                FileTool.execute was reached through a subclass, and the *)
(*                file-system accesses it made                             *)
(***************************************************************************)
VARIABLES fileTool, fileRequest, fileOutcome

fileVars == <<fileTool, fileRequest, fileOutcome>>

(***************************************************************************)
(* State of one TaskTool instance (TaskSpec).                              *)
(*   taskList      this.taskList: the pending and the completed tasks      *)
(*   taskIds       this.taskCounter of the instance                        *)
(*   completedLog  the ids of the tasks completed so far, in the order of  *)
(*                 their completion (a history kept for the properties)    *)
(*   taskResult    the last call of execute: its operation, the id it      *)
(*                 named, the error it answered with ("" for none) and the *)
(*                 id it issued (0 for none)                               *)
(***************************************************************************)
VARIABLES taskList, taskIds, completedLog, taskResult

taskVars == <<taskList, taskIds, completedLog, taskResult>>

(***************************************************************************)
(* State of one call of OutputSummarizer.summarizeIfNeeded                 *)
(* (SummarizerSpec).                                                       *)
(*   summaryCall  the call: its position (pc), its arguments, the number   *)
(*                of times it asked the configuration for the model client *)
(*                (contacts), the state of its timeout timer and of the    *)
(*                abort signal, how the model call settled (settled, kept  *)
(*                for the properties) and what the call returned           *)
(***************************************************************************)
VARIABLES summaryCall

summarizerVars == <<summaryCall>>

(***************************************************************************)
(* State of one call of FileTool.edit (EditSpec).                          *)
(*   editDisk    the file on disk: whether it exists, and its lines        *)
(*   editCall    the call: its position (pc), the changes it was given,    *)
(*               the lines it read (original), the lines it handed to      *)
(*               writeFile (toWrite) and what it returned                  *)
(*   editWrites  the number of calls of writeFile                          *)
(***************************************************************************)
VARIABLES editDisk, editCall, editWrites

editVars == <<editDisk, editCall, editWrites>>

(***************************************************************************)
(* State of one FileMemory (FileMemorySpec, SummaryCacheSpec).             *)
(*   memory       this.memory: the entries in the insertion order of the   *)
(*                Map, each with its path, its lastAccessed and the keys   *)
(*                of its summaries in their insertion order                *)
(*   memoryClock  Date.now()                                               *)
(*   memoryOps    the number of operations called so far                   *)
(***************************************************************************)
VARIABLES memory, memoryClock, memoryOps

memoryVars == <<memory, memoryClock, memoryOps>>

laterVars == <<historyVars, formatVars, turnVars, fileVars, taskVars, summarizerVars, editVars, memoryVars>>
vars == <<sessionVars, registryVars, codecVars, laterVars>>
nonSessionVars == <<registryVars, codecVars, laterVars>>
nonRegistryVars == <<sessionVars, codecVars, laterVars>>
nonCodecVars == <<sessionVars, registryVars, laterVars>>
nonHistoryVars == <<sessionVars, registryVars, codecVars, formatVars, turnVars, fileVars, taskVars, summarizerVars, editVars, memoryVars>>
nonFormatVars == <<sessionVars, registryVars, codecVars, historyVars, turnVars, fileVars, taskVars, summarizerVars, editVars, memoryVars>>
nonTurnVars == <<sessionVars, registryVars, codecVars, historyVars, formatVars, fileVars, taskVars, summarizerVars, editVars, memoryVars>>
nonFileVars == <<sessionVars, registryVars, codecVars, historyVars, formatVars, turnVars, taskVars, summarizerVars, editVars, memoryVars>>
nonTaskVars == <<sessionVars, registryVars, codecVars, historyVars, formatVars, turnVars, fileVars, summarizerVars, editVars, memoryVars>>
nonSummarizerVars == <<sessionVars, registryVars, codecVars, historyVars, formatVars, turnVars, fileVars, taskVars, editVars, memoryVars>>
nonEditVars == <<sessionVars, registryVars, codecVars, historyVars, formatVars, turnVars, fileVars, taskVars, summarizerVars, memoryVars>>
nonMemoryVars == <<sessionVars, registryVars, codecVars, historyVars, formatVars, turnVars, fileVars, taskVars, summarizerVars, editVars>>

Callers == {"loop", "run"}

LoopIdle ==
  [pc |-> "idle", turnsRemaining |-> 0, lastMessage |-> Null, batch |-> <<>>, idx |-> 0,
   results |-> <<>>, turns |-> 0, ret |-> Null, fault |-> Null, chat |-> "agentChat"]
SummaryIdle ==
  [pc |-> "idle", batch |-> <<>>, idx |-> 0, results |-> <<>>, ret |-> Null,
   threw |-> FALSE, chat |-> "none"]

\* No registry has been built and no capability has run.
RegistryIdle ==
  /\ parentRegistry = <<>>
  /\ sessionRegistry = [s \in Sessions |-> <<>>]
  /\ taskCounter = [o \in Owners |-> 0]

\* No payload has been produced.
CodecIdle ==
  /\ origin = Null
  /\ payload = Null
  /\ decoded = Null

\* No history has been handed to a runner.
HistoryIdle ==
  /\ arrays = <<>>
  /\ parentHistory = 0
  /\ chatHistory = [s \in Sessions |-> 0]

\* No result is being formatted.
FormatIdle ==
  /\ agentResult = Null
  /\ formatted = Null

\* No run is followed.
TurnIdle ==
  /\ observed = Null

\* The file capability has not been called.
FileIdle ==
  /\ fileTool = "none"
  /\ fileRequest = Null
  /\ fileOutcome = Null

\* No TaskTool has been constructed.
TaskIdle ==
  /\ taskList = Null
  /\ taskIds = 0
  /\ completedLog = <<>>
  /\ taskResult = Null

\* No call of summarizeIfNeeded has been made.
SummarizerIdle ==
  /\ summaryCall = Null

\* No call of FileTool.edit has been made.
EditIdle ==
  /\ editDisk = Null
  /\ editCall = Null
  /\ editWrites = 0

\* No FileMemory has been constructed.
MemoryIdle ==
  /\ memory = <<>>
  /\ memoryClock = 0
  /\ memoryOps = 0

\* The state of every part of the program but the named one, at rest.
OthersIdle(part) ==
  /\ part = "history" \/ HistoryIdle
  /\ part = "format" \/ FormatIdle
  /\ part = "turn" \/ TurnIdle
  /\ part = "file" \/ FileIdle
  /\ part = "task" \/ TaskIdle
  /\ part = "summarizer" \/ SummarizerIdle
  /\ part = "edit" \/ EditIdle
  /\ part = "memory" \/ MemoryIdle

Init ==
  /\ hpc = "start"
  /\ maxTurns \in 1..MaxTurnsBound
  /\ timeoutMs \in TimeoutChoices
  /\ agentRegistry = <<>>
  /\ warningFired = FALSE
  /\ warningTimeout = "unset"
  /\ deadlineTimer = "unset"
  /\ race = "pending"
  /\ loop = LoopIdle
  /\ summary = [c \in Callers |-> SummaryIdle]
  /\ handlerResult = Null
  /\ registryFault = Null
  /\ RegistryIdle
  /\ CodecIdle
  /\ OthersIdle("session")

\* No sub-agent session is followed.
SessionIdle ==
  /\ hpc = "start"
  /\ maxTurns = 1
  /\ timeoutMs = 100
  /\ agentRegistry = <<>>
  /\ warningFired = FALSE
  /\ warningTimeout = "unset"
  /\ deadlineTimer = "unset"
  /\ race = "pending"
  /\ loop = LoopIdle
  /\ summary = [c \in Callers |-> SummaryIdle]
  /\ handlerResult = Null
  /\ registryFault = Null

(***************************************************************************)
(* maxTurns is a double.  From 2^53 on (max_turns = 1e17, say) subtracting *)
(* 1 leaves a double as it is.  TLC's integers are 32 bits wide, so the    *)
(* model writes every such number as HugeTurns.                            *)
(***************************************************************************)
HugeTurns == 1073741824
\* turnsRemaining--
Decrement(n) == IF n >= HugeTurns THEN n ELSE n - 1

(***************************************************************************)
(* runAgentTurns as a function of the loop's local state.  isTimeWarning   *)
(* is the value the closure () => warningFired gives at that moment.       *)
(* lastMessage is kept while it is live: from the point it is built to the *)
(* end of the Turn it is sent in (every path reassigns it before the next  *)
(* read).                                                                  *)
(***************************************************************************)
StartTurn(l, turnsRemaining, lastMessage, isTimeWarning) ==
  [l EXCEPT !.pc = "turn", !.turnsRemaining = turnsRemaining,
            !.lastMessage = IF isTimeWarning /\ turnsRemaining = maxTurns
                            THEN AddWarning(lastMessage) ELSE lastMessage,
            !.turns = @ + 1, !.batch = <<>>, !.idx = 0, !.results = <<>>]

\* Mutant: the loop condition is turnsRemaining >= 0.
WhileLoopOffByOne(l, turnsRemaining, lastMessage, isTimeWarning) ==
  IF turnsRemaining >= 0
  THEN StartTurn(l, turnsRemaining, lastMessage, isTimeWarning)
  ELSE [l EXCEPT !.pc = "summary", !.turnsRemaining = turnsRemaining,
                 !.lastMessage = Null, !.batch = <<>>, !.idx = 0, !.results = <<>>]

WhileLoop(l, turnsRemaining, lastMessage, isTimeWarning) ==
  IF turnsRemaining > 0
  THEN StartTurn(l, turnsRemaining, lastMessage, isTimeWarning)
  ELSE [l EXCEPT !.pc = "summary", !.turnsRemaining = turnsRemaining,
                 !.lastMessage = Null, !.batch = <<>>, !.idx = 0, !.results = <<>>]

runAgentTurns(isTimeWarning) == WhileLoop(LoopIdle, maxTurns, TaskMessage, isTimeWarning)

AfterToolCalls(l, toolResults, isTimeWarning) ==
  LET agentReturn == ScanForReturn(toolResults, 1)
  IN IF agentReturn # Null
     THEN [l EXCEPT !.pc = "returned", !.ret = agentReturn, !.results = toolResults,
                    !.idx = Len(toolResults) + 1, !.lastMessage = Null]
     ELSE WhileLoop(l, Decrement(l.turnsRemaining), ResponsesMessage(toolResults), isTimeWarning)

\* Mutant: a Turn without capability requests does not use up a turn.
LoopAfterTurnNoDecrement(l, modelResponse, toolCallRequests, isTimeWarning) ==
  LET pendingToolCalls == WithCallIds(toolCallRequests)
  IN IF Len(pendingToolCalls) > 0
     THEN LET p == ProcessFrom(agentRegistry, pendingToolCalls, 1, <<>>)
          IN IF p.idx > Len(pendingToolCalls)
             THEN AfterToolCalls([l EXCEPT !.batch = pendingToolCalls], p.results, isTimeWarning)
             ELSE [l EXCEPT !.pc = "exec", !.batch = pendingToolCalls, !.idx = p.idx,
                            !.results = p.results, !.lastMessage = Null]
     ELSE WhileLoop(l, l.turnsRemaining,
                    IF Trim(modelResponse) # "" THEN NudgeReturnMessage
                    ELSE NudgeContinueMessage,
                    isTimeWarning)

\* Mutant: the two nudges are exchanged.
LoopAfterTurnNudgesSwapped(l, modelResponse, toolCallRequests, isTimeWarning) ==
  LET pendingToolCalls == WithCallIds(toolCallRequests)
  IN IF Len(pendingToolCalls) > 0
     THEN LET p == ProcessFrom(agentRegistry, pendingToolCalls, 1, <<>>)
          IN IF p.idx > Len(pendingToolCalls)
             THEN AfterToolCalls([l EXCEPT !.batch = pendingToolCalls], p.results, isTimeWarning)
             ELSE [l EXCEPT !.pc = "exec", !.batch = pendingToolCalls, !.idx = p.idx,
                            !.results = p.results, !.lastMessage = Null]
     ELSE WhileLoop(l, Decrement(l.turnsRemaining),
                    IF Trim(modelResponse) # "" THEN NudgeContinueMessage
                    ELSE NudgeReturnMessage,
                    isTimeWarning)

LoopAfterTurn(l, modelResponse, toolCallRequests, isTimeWarning) ==
  LET pendingToolCalls == WithCallIds(toolCallRequests)
  IN IF Len(pendingToolCalls) > 0
     THEN LET p == ProcessFrom(agentRegistry, pendingToolCalls, 1, <<>>)
          IN IF p.idx > Len(pendingToolCalls)
             THEN AfterToolCalls([l EXCEPT !.batch = pendingToolCalls], p.results, isTimeWarning)
             ELSE [l EXCEPT !.pc = "exec", !.batch = pendingToolCalls, !.idx = p.idx,
                            !.results = p.results, !.lastMessage = Null]
     ELSE WhileLoop(l, Decrement(l.turnsRemaining),
                    IF Trim(modelResponse) # "" THEN NudgeReturnMessage
                    ELSE NudgeContinueMessage,
                    isTimeWarning)

\* Mutant: processToolCalls stops at the first outcome that decodes as a
\* return signal.
LoopAfterCallStopsAtReturn(l, outcome, isTimeWarning) ==
  LET entry == OutcomeEntry(l.batch[l.idx], outcome)
      p == ProcessFrom(agentRegistry, l.batch, l.idx + 1, Append(l.results, entry))
  IN IF entry.result # Null /\ checkForAgentReturn(entry.result.llmContent) # Null
     THEN AfterToolCalls(l, Append(l.results, entry), isTimeWarning)
     ELSE IF p.idx > Len(l.batch)
          THEN AfterToolCalls(l, p.results, isTimeWarning)
          ELSE [l EXCEPT !.idx = p.idx, !.results = p.results]

LoopAfterCall(l, outcome, isTimeWarning) ==
  LET p == ProcessFrom(agentRegistry, l.batch, l.idx + 1,
                       Append(l.results, OutcomeEntry(l.batch[l.idx], outcome)))
  IN IF p.idx > Len(l.batch)
     THEN AfterToolCalls(l, p.results, isTimeWarning)
     ELSE [l EXCEPT !.idx = p.idx, !.results = p.results]

LoopTurnThrew(l, fault) == [l EXCEPT !.pc = "threw", !.fault = fault]

(***************************************************************************)
(* requestAgentSummary as a function of its local state.                   *)
(***************************************************************************)
\* Mutant: the summarization Turn runs on a chat of its own.
requestAgentSummaryFreshChat(chat) == [SummaryIdle EXCEPT !.pc = "turn", !.chat = "freshChat"]

requestAgentSummary(chat) == [SummaryIdle EXCEPT !.pc = "turn", !.chat = chat]

\* Mutant: no default result when no outcome decodes.
SummaryFinishNoDefault(s, toolResults) ==
  [s EXCEPT !.pc = "done", !.results = toolResults, !.idx = Len(toolResults) + 1,
            !.ret = ScanForReturn(toolResults, 1)]

SummaryFinish(s, toolResults) ==
  LET agentReturn == ScanForReturn(toolResults, 1)
  IN [s EXCEPT !.pc = "done", !.results = toolResults, !.idx = Len(toolResults) + 1,
               !.ret = IF agentReturn # Null THEN agentReturn ELSE DefaultFailure]

SummaryAfterTurn(s, toolCallRequests) ==
  LET pendingToolCalls == WithCallIds(toolCallRequests)
      p == ProcessFrom(agentRegistry, pendingToolCalls, 1, <<>>)
  IN IF p.idx > Len(pendingToolCalls)
     THEN SummaryFinish([s EXCEPT !.batch = pendingToolCalls], p.results)
     ELSE [s EXCEPT !.pc = "exec", !.batch = pendingToolCalls, !.idx = p.idx,
                    !.results = p.results]

SummaryAfterCall(s, outcome) ==
  LET p == ProcessFrom(agentRegistry, s.batch, s.idx + 1,
                       Append(s.results, OutcomeEntry(s.batch[s.idx], outcome)))
  IN IF p.idx > Len(s.batch)
     THEN SummaryFinish(s, p.results)
     ELSE [s EXCEPT !.idx = p.idx, !.results = p.results]

SummaryTurnThrew(s) == [s EXCEPT !.pc = "done", !.threw = TRUE, !.ret = DefaultFailure]

(***************************************************************************)
(* TaskAgentRunner.run and handleAgentSpawn around the two computations.   *)
(***************************************************************************)
warningTimeoutMs == Max(0, timeoutMs - WarningLeadMs)
clearTimeout(timer) == IF timer = "armed" THEN "cleared" ELSE timer

HandlerReturn(result) == [isAgent |-> TRUE, result |-> result]
HandlerCatch(error) ==
  LET errorMessage == IF error.isError THEN error.message ELSE "Unknown error"
  IN [isAgent |-> TRUE, result |-> ExecFailure(errorMessage)]

IsAgentTimeout(error) == error.isError /\ error.message = "Agent timeout"

\* runAgentTurns, its turn budget used up, calls requestAgentSummary on its chat ...
SummaryCalledByLoop(l, s) ==
  IF l.pc = "summary" /\ s["loop"].pc = "idle"
  THEN [s EXCEPT !["loop"] = requestAgentSummary(l.chat)] ELSE s
\* ... and returns what it returns.
LoopReturnsSummary(l, s) ==
  IF l.pc = "summary" /\ s["loop"].pc = "done"
  THEN [l EXCEPT !.pc = "returned", !.ret = s["loop"].ret] ELSE l

\* The continuations that run after a step of the loop or of a summarization
\* left the loop as l and the summarizations as s: the race settles when the
\* loop's promise does, run's try/catch and handleAgentSpawn's try/catch follow.
RunContinues(l, s) ==
  LET l3 == LoopReturnsSummary(l, s)
      s3 == SummaryCalledByLoop(l, s)
      settles == race = "pending" /\ l3.pc \in {"returned", "threw"}
  IN /\ loop' = l3
     /\ IF settles
        THEN /\ race' = IF l3.pc = "returned" THEN "loop" ELSE "loopThrew"
             /\ warningTimeout' = clearTimeout(warningTimeout)
             /\ IF l3.pc = "returned"
                THEN /\ summary' = s3
                     /\ hpc' = "done"
                     /\ handlerResult' = HandlerReturn(l3.ret)
                ELSE IF IsAgentTimeout(l3.fault)
                     THEN /\ summary' = [s3 EXCEPT !["run"] = requestAgentSummary("agentChat")]
                          /\ hpc' = "summarizing"
                          /\ handlerResult' = handlerResult
                     ELSE /\ summary' = s3
                          /\ hpc' = "done"
                          /\ handlerResult' = HandlerCatch(l3.fault)
        ELSE /\ UNCHANGED <<race, warningTimeout>>
             /\ summary' = s3
             /\ IF hpc = "summarizing" /\ s3["run"].pc = "done"
                THEN /\ hpc' = "done"
                     /\ handlerResult' = HandlerReturn(s3["run"].ret)
                ELSE UNCHANGED <<hpc, handlerResult>>
     /\ UNCHANGED nonSessionVars
     /\ UNCHANGED <<maxTurns, timeoutMs, agentRegistry, warningFired, deadlineTimer,
                    registryFault>>

\* handleAgentSpawn builds the prompt and the runner and calls run, which awaits
\* createAgentToolRegistry.
Spawn ==
  /\ hpc = "start"
  /\ hpc' = "registry"
  /\ UNCHANGED nonSessionVars
  /\ UNCHANGED <<maxTurns, timeoutMs, agentRegistry, warningFired, warningTimeout,
                 deadlineTimer, race, loop, summary, handlerResult, registryFault>>

\* The registry is built: run forks the chat, arms both timers and calls
\* runAgentTurns, which runs up to the await of its first Turn.
RegistryResolves ==
  /\ hpc = "registry"
  /\ agentRegistry' = createAgentToolRegistry(ParentRegistry, "s1")
  /\ deadlineTimer' = "armed"
  /\ warningFired' = FALSE
  /\ warningTimeout' = "armed"
  /\ loop' = runAgentTurns(FALSE)
  /\ hpc' = "racing"
  /\ UNCHANGED nonSessionVars
  /\ UNCHANGED <<maxTurns, timeoutMs, race, summary, handlerResult, registryFault>>

\* Building the registry throws: run rejects, handleAgentSpawn catches.
RegistryRejects ==
  /\ hpc = "registry"
  /\ \E error \in Faults :
       /\ handlerResult' = HandlerCatch(error)
       /\ registryFault' = error
  /\ hpc' = "done"
  /\ UNCHANGED nonSessionVars
  /\ UNCHANGED <<maxTurns, timeoutMs, agentRegistry, warningFired, warningTimeout,
                 deadlineTimer, race, loop, summary>>

WarningTimerFires ==
  /\ warningTimeout = "armed"
  /\ warningTimeout' = "fired"
  /\ warningFired' = TRUE
  /\ UNCHANGED nonSessionVars
  /\ UNCHANGED <<hpc, maxTurns, timeoutMs, agentRegistry, deadlineTimer, race, loop,
                 summary, handlerResult, registryFault>>

\* Mutant: the deadline timer fires and rejects nothing.
DeadlineTimerFiresUnheard ==
  /\ deadlineTimer = "armed"
  /\ warningTimeoutMs < timeoutMs => warningTimeout # "armed"
  /\ deadlineTimer' = "fired"
  /\ UNCHANGED nonSessionVars
  /\ UNCHANGED <<hpc, maxTurns, timeoutMs, agentRegistry, warningFired, warningTimeout,
                 race, loop, summary, handlerResult, registryFault>>

\* Mutant: the rejection of timeoutPromise reaches run's catch although the
\* race is settled.
DeadlineTimerFiresAlways ==
  /\ deadlineTimer = "armed"
  /\ warningTimeoutMs < timeoutMs => warningTimeout # "armed"
  /\ deadlineTimer' = "fired"
  /\ race' = "timer"
  /\ warningTimeout' = clearTimeout(warningTimeout)
  /\ summary' = [summary EXCEPT !["run"] = requestAgentSummary("agentChat")]
  /\ hpc' = "summarizing"
  /\ UNCHANGED nonSessionVars
  /\ UNCHANGED <<maxTurns, timeoutMs, agentRegistry, warningFired, loop, handlerResult,
                 registryFault>>

\* The timer of timeoutPromise fires (timers fire in the order of their
\* delays).  If the race is still open it settles with 'Agent timeout' and
\* run's catch calls requestAgentSummary on agentChat.
DeadlineTimerFires ==
  /\ deadlineTimer = "armed"
  /\ warningTimeoutMs < timeoutMs => warningTimeout # "armed"
  /\ deadlineTimer' = "fired"
  /\ IF race = "pending"
     THEN /\ race' = "timer"
          /\ warningTimeout' = clearTimeout(warningTimeout)
          /\ summary' = [summary EXCEPT !["run"] = requestAgentSummary("agentChat")]
          /\ hpc' = "summarizing"
     ELSE UNCHANGED <<race, warningTimeout, summary, hpc>>
  /\ UNCHANGED nonSessionVars
  /\ UNCHANGED <<maxTurns, timeoutMs, agentRegistry, warningFired, loop, handlerResult,
                 registryFault>>

\* The accumulated content is read only when the Turn requested no capability.
LoopTurnCompletes ==
  /\ loop.pc = "turn"
  /\ \E toolCallRequests \in Batches :
       \E modelResponse \in IF toolCallRequests = <<>> THEN Contents ELSE {"Working on task..."} :
         RunContinues(LoopAfterTurn(loop, modelResponse, toolCallRequests, warningFired), summary)

LoopTurnThrows ==
  /\ loop.pc = "turn"
  /\ \E error \in Faults : RunContinues(LoopTurnThrew(loop, error), summary)

LoopCallCompletes ==
  /\ loop.pc = "exec"
  /\ \E outcome \in ExecuteOutcomes(loop.batch[loop.idx]) :
       RunContinues(LoopAfterCall(loop, outcome, warningFired), summary)

SummaryTurnCompletes ==
  \E c \in Callers :
    /\ summary[c].pc = "turn"
    /\ \E toolCallRequests \in Batches :
         RunContinues(loop, [summary EXCEPT ![c] = SummaryAfterTurn(@, toolCallRequests)])

SummaryTurnThrows ==
  \E c \in Callers :
    /\ summary[c].pc = "turn"
    /\ RunContinues(loop, [summary EXCEPT ![c] = SummaryTurnThrew(@)])

SummaryCallCompletes ==
  \E c \in Callers :
    /\ summary[c].pc = "exec"
    /\ \E outcome \in ExecuteOutcomes(summary[c].batch[summary[c].idx]) :
         RunContinues(loop, [summary EXCEPT ![c] = SummaryAfterCall(@, outcome)])

Next ==
  \/ Spawn
  \/ RegistryResolves
  \/ RegistryRejects
  \/ WarningTimerFires
  \/ DeadlineTimerFires
  \/ LoopTurnCompletes
  \/ LoopTurnThrows
  \/ LoopCallCompletes
  \/ SummaryTurnCompletes
  \/ SummaryTurnThrows
  \/ SummaryCallCompletes

Spec == Init /\ [][Next]_vars

(***************************************************************************)
(* DeadlineSpec: the session for every turn budget, the budgets the loop   *)
(* cannot use up included.  Turns request at most one capability, and the  *)
(* loop is followed up to its Turn number MaxLoopTurns.                    *)
(***************************************************************************)
MaxLoopTurns == MaxTurnsBound + 1
ShortBatches == {batch \in Batches : Len(batch) <= 1}

DeadlineInit ==
  /\ hpc = "start"
  /\ maxTurns \in (1..MaxTurnsBound) \cup {HugeTurns}
  /\ timeoutMs \in TimeoutChoices
  /\ agentRegistry = <<>>
  /\ warningFired = FALSE
  /\ warningTimeout = "unset"
  /\ deadlineTimer = "unset"
  /\ race = "pending"
  /\ loop = LoopIdle
  /\ summary = [c \in Callers |-> SummaryIdle]
  /\ handlerResult = Null
  /\ registryFault = Null
  /\ RegistryIdle
  /\ CodecIdle
  /\ OthersIdle("session")

BoundedLoopTurnCompletes ==
  /\ loop.pc = "turn"
  /\ loop.turns < MaxLoopTurns
  /\ \E toolCallRequests \in ShortBatches :
       \E modelResponse \in IF toolCallRequests = <<>> THEN Contents ELSE {"Working on task..."} :
         RunContinues(LoopAfterTurn(loop, modelResponse, toolCallRequests, warningFired), summary)

ShortSummaryTurnCompletes ==
  \E c \in Callers :
    /\ summary[c].pc = "turn"
    /\ \E toolCallRequests \in ShortBatches :
         RunContinues(loop, [summary EXCEPT ![c] = SummaryAfterTurn(@, toolCallRequests)])

DeadlineNext ==
  \/ Spawn
  \/ RegistryResolves
  \/ RegistryRejects
  \/ WarningTimerFires
  \/ DeadlineTimerFires
  \/ BoundedLoopTurnCompletes
  \/ LoopTurnThrows
  \/ LoopCallCompletes
  \/ ShortSummaryTurnCompletes
  \/ SummaryTurnThrows
  \/ SummaryCallCompletes

DeadlineSpec == DeadlineInit /\ [][DeadlineNext]_vars

\* The session is started, the registry is built or fails to be, timers with
\* a finite delay fire, and every Turn and every capability invocation
\* completes.  A Turn may raise instead of completing, but no Turn is made
\* to: the loop is not followed past the start of Turn MaxLoopTurns, and
\* nothing but the deadline ends the wait for it.
DeadlineFairness ==
  /\ WF_vars(Spawn)
  /\ WF_vars(RegistryResolves \/ RegistryRejects)
  /\ WF_vars(WarningTimerFires)
  /\ WF_vars(DeadlineTimerFires)
  /\ WF_vars(BoundedLoopTurnCompletes)
  /\ WF_vars(LoopCallCompletes)
  /\ WF_vars(ShortSummaryTurnCompletes)
  /\ WF_vars(SummaryCallCompletes)

FairDeadlineSpec == DeadlineSpec /\ DeadlineFairness

(***************************************************************************)
(* RegistrySpec: a parent registry of any content, the registries that the *)
(* runs of two sub-agent sessions build from it, and capability calls made *)
(* through the registries.  The task tracker is the capability with state  *)
(* of its own: every add increments the taskCounter of the instance that   *)
(* is invoked.                                                             *)
(***************************************************************************)
MaxTaskAdds == 2
ParentToolNames == <<"read_file", "task_tracker", "task_agent", "return_from_task">>

\* The tools of allTools whose names are in chosen, in registration order.
RECURSIVE RegisterAll(_, _, _, _)
RegisterAll(names, chosen, i, registry) ==
  IF i > Len(names) THEN registry
  ELSE RegisterAll(names, chosen, i + 1,
                   IF names[i] \in chosen
                   THEN registerTool(registry, Tool(names[i], "parent")) ELSE registry)
ParentRegistries ==
  {RegisterAll(ParentToolNames, chosen, 1, <<>>) :
     chosen \in SUBSET {ParentToolNames[i] : i \in 1..Len(ParentToolNames)}}

RegistryOf(owner) == IF owner = "parent" THEN parentRegistry ELSE sessionRegistry[owner]

addTask(counter, tool) == [counter EXCEPT ![tool.owner] = @ + 1]

RegistryInit ==
  /\ SessionIdle
  /\ CodecIdle
  /\ OthersIdle("registry")
  /\ parentRegistry \in ParentRegistries
  /\ sessionRegistry = [s \in Sessions |-> <<>>]
  /\ taskCounter = [o \in Owners |-> 0]

\* The run of session s awaits createAgentToolRegistry.
CreateSessionRegistry ==
  /\ \E s \in Sessions :
       /\ sessionRegistry[s] = <<>>
       /\ sessionRegistry' =
            [sessionRegistry EXCEPT ![s] = createAgentToolRegistry(parentRegistry, s)]
  /\ UNCHANGED <<parentRegistry, taskCounter>>
  /\ UNCHANGED nonRegistryVars

\* The parent or a session invokes the task tracker its registry gives, with
\* operation add.
TaskTrackerAdd ==
  /\ \E caller \in Owners :
       LET tool == getTool(RegistryOf(caller), "task_tracker")
       IN /\ tool # Null
          /\ taskCounter[tool.owner] < MaxTaskAdds
          /\ taskCounter' = addTask(taskCounter, tool)
  /\ UNCHANGED <<parentRegistry, sessionRegistry>>
  /\ UNCHANGED nonRegistryVars

RegistryNext ==
  \/ CreateSessionRegistry
  \/ TaskTrackerAdd

RegistrySpec == RegistryInit /\ [][RegistryNext]_vars

(***************************************************************************)
(* CodecSpec: a payload is produced, by ReturnFromTaskTool.execute, by     *)
(* TaskAgentTool.execute or by anything else, and the decoders are applied *)
(* to it.                                                                  *)
(***************************************************************************)
ReturnFromTaskParams ==
  {Signal(JBool(success), JStr(description), JStr(result)) :
     success \in BOOLEAN, description \in {"", "done"}, result \in {"", "42"}}
TaskAgentParams ==
  {[task |-> JStr(task), prompt |-> JStr("Test prompt"), maxTurns |-> maxTurnsGiven,
    timeoutMs |-> timeoutMsGiven] :
     task \in {"", "Test task"},
     maxTurnsGiven \in {JUndefined, JNum(0), JNum(5)},
     timeoutMsGiven \in {JUndefined, JNum(0), JNum(60000)}}

\* Payloads that neither encoder produces: texts that are empty, not JSON,
\* JSON that is no object, objects without a type or with another type, and
\* objects with a marker type whose fields are missing or of another type;
\* each in every shape a PartListUnion has.
OtherTexts ==
  {EmptyText,
   RawText("Not valid JSON"),
   JSONtext(JNull),
   JSONtext(JStr("spawn_agent")),
   JSONtext(JNum(7)),
   JSONtext([data |-> JStr("some data")]),
   JSONtext([type |-> JStr("regular_response"), data |-> JStr("some data")]),
   JSONtext([type |-> JNum(1)]),
   JSONtext([type |-> JStr("spawn_agent")]),
   JSONtext([type |-> JStr("spawn_agent"), task |-> JNum(1), prompt |-> JNull,
             maxTurns |-> JStr("5"), timeoutMs |-> JBool(TRUE)]),
   JSONtext([type |-> JStr("agent_return")]),
   JSONtext([type |-> JStr("agent_return"), success |-> JStr("yes"),
             description |-> JNum(1), result |-> JNull])}
OtherPayloads ==
  {[shape |-> shape, text |-> text] : shape \in TextShapes, text \in OtherTexts}
  \cup {[shape |-> shape, text |-> EmptyText] : shape \in {"noText", "none"}}

CodecInit ==
  /\ SessionIdle
  /\ RegistryIdle
  /\ CodecIdle
  /\ OthersIdle("codec")

ReturnFromTaskRuns ==
  /\ origin = Null
  /\ \E params \in ReturnFromTaskParams :
       /\ origin' = [by |-> "return_from_task", params |-> params]
       /\ payload' = ReturnFromTaskExecute(params).llmContent
  /\ UNCHANGED decoded
  /\ UNCHANGED nonCodecVars

TaskAgentRuns ==
  /\ origin = Null
  /\ \E params \in TaskAgentParams :
       /\ origin' = [by |-> "task_agent", params |-> params]
       /\ payload' = TaskAgentExecute(params).llmContent
  /\ UNCHANGED decoded
  /\ UNCHANGED nonCodecVars

OtherToolRuns ==
  /\ origin = Null
  /\ \E llmContent \in OtherPayloads :
       /\ origin' = [by |-> "other", params |-> Null]
       /\ payload' = llmContent
  /\ UNCHANGED decoded
  /\ UNCHANGED nonCodecVars

Decode ==
  /\ origin # Null
  /\ decoded = Null
  /\ decoded' = [spawn |-> isAgentSpawnRequest(ToolResponse(payload)),
                 agentReturn |-> checkForAgentReturn(payload),
                 agentReturnDefaulting |-> checkForAgentReturnDefaulting(payload)]
  /\ UNCHANGED <<origin, payload>>
  /\ UNCHANGED nonCodecVars

CodecNext ==
  \/ ReturnFromTaskRuns
  \/ TaskAgentRuns
  \/ OtherToolRuns
  \/ Decode

CodecSpec == CodecInit /\ [][CodecNext]_vars

(***************************************************************************)
(* HistorySpec: the parent's history array is handed to the runner of each *)
(* session; run constructs the session's chat on [...this.parentHistory],  *)
(* and every Turn of the session makes the chat push the outbound message  *)
(* and the model's reply on the array the chat was constructed with.       *)
(***************************************************************************)
MaxHistory == 2
MaxChildTurns == 2
Content(role, by) == [role |-> role, by |-> by]
RECURSIVE SeqsUpTo(_, _)
SeqsUpTo(S, n) ==
  IF n = 0 THEN {<<>>}
  ELSE LET shorter == SeqsUpTo(S, n - 1)
       IN shorter \cup {Append(h, c) : h \in {x \in shorter : Len(x) = n - 1}, c \in S}
ParentHistories ==
  SeqsUpTo({Content("user", "parent"), Content("model", "parent")}, MaxHistory)

\* new Array: a fresh reference holding the elements.
NewArray(heap, elements) == [ref |-> Len(heap) + 1, heap |-> Append(heap, elements)]
\* Mutant: the chat is constructed on this.parentHistory itself.
ForkHistoryNoCopy(heap, history) == [ref |-> history, heap |-> heap]
\* [...this.parentHistory]
ForkHistory(heap, history) == NewArray(heap, heap[history])
\* What a Turn of the session leaves in the chat's history.
RecordTurn(heap, history, session) ==
  [heap EXCEPT ![history] = @ \o <<Content("user", session), Content("model", session)>>]

HistoryInit ==
  /\ SessionIdle
  /\ RegistryIdle
  /\ CodecIdle
  /\ OthersIdle("history")
  /\ \E h \in ParentHistories : arrays = NewArray(<<>>, h).heap
  /\ parentHistory = 1
  /\ chatHistory = [s \in Sessions |-> 0]

\* run of session s constructs agentChat.
ChatConstructed ==
  /\ \E s \in Sessions :
       /\ chatHistory[s] = 0
       /\ LET fork == ForkHistory(arrays, parentHistory)
          IN /\ arrays' = fork.heap
             /\ chatHistory' = [chatHistory EXCEPT ![s] = fork.ref]
  /\ UNCHANGED parentHistory
  /\ UNCHANGED nonHistoryVars

\* A Turn of session s (of its loop or a summarization) has run on its chat.
ChildTurn ==
  /\ \E s \in Sessions :
       /\ chatHistory[s] # 0
       /\ Len(arrays[chatHistory[s]]) < Len(arrays[parentHistory]) + 2 * MaxChildTurns
       /\ arrays' = RecordTurn(arrays, chatHistory[s], s)
  /\ UNCHANGED <<parentHistory, chatHistory>>
  /\ UNCHANGED nonHistoryVars

HistoryNext ==
  \/ ChatConstructed
  \/ ChildTurn

HistorySpec == HistoryInit /\ [][HistoryNext]_vars

(***************************************************************************)
(* formatAgentResult.  A text is the sequence of the pieces of its         *)
(* template literal: the literal pieces and the interpolated values, an    *)
(* empty value contributing no piece.                                      *)
(***************************************************************************)
Pieces(s) == IF s = "" THEN <<>> ELSE <<s>>
\* ${value}: the string a value is converted to.
StringOf(value) == IF value.t \in {"undefined", "null"} THEN value.t ELSE value.v
ModelContent(text) == [role |-> "model", parts |-> <<[text |-> text]>>]
ResultSection(result) == <<"\nResult:\n">> \o Pieces(StringOf(result))
MessageHead(task, result) ==
  <<"Task Agent completed task: \"">> \o Pieces(task) \o <<"\"\nSuccess: ">>
    \o Pieces(StringOf(result.success)) \o <<"\nSummary: ">>
    \o Pieces(StringOf(result.description)) \o <<"\n">>

\* Mutant: the Result section is appended whatever the result.
formatAgentResultAlwaysSection(task, result) ==
  IF result = Null
  THEN ModelContent(<<"Agent execution failed with no result.">>)
  ELSE ModelContent(MessageHead(task, result) \o ResultSection(result.result))

formatAgentResult(task, result) ==
  IF result = Null
  THEN ModelContent(<<"Agent execution failed with no result.">>)
  ELSE ModelContent(MessageHead(task, result)
                    \o (IF ~Falsy(result.result) THEN ResultSection(result.result) ELSE <<>>))

(***************************************************************************)
(* FormatSpec: a session ends with a result, or with none, and the host    *)
(* formats it under a task label.                                          *)
(***************************************************************************)
TaskLabels == {"", "Test task", "Result:"}
AgentResults ==
  {Signal(JBool(s), JStr(d), r) :
     s \in BOOLEAN,
     d \in {"", "Successfully completed the task", "Result: none",
            DefaultFailure.description.v},
     r \in {JStr(""), JStr("Here are the findings"), JStr("0"), JUndefined}}

FormatInit ==
  /\ SessionIdle
  /\ RegistryIdle
  /\ CodecIdle
  /\ OthersIdle("format")
  /\ agentResult = Null
  /\ formatted = Null

SessionEnds ==
  /\ agentResult = Null
  /\ formatted = Null
  /\ agentResult' \in AgentResults
  /\ UNCHANGED formatted
  /\ UNCHANGED nonFormatVars

FormatResult ==
  /\ formatted = Null
  /\ \E task \in TaskLabels :
       formatted' = [task |-> task, content |-> formatAgentResult(task, agentResult)]
  /\ UNCHANGED agentResult
  /\ UNCHANGED nonFormatVars

FormatNext ==
  \/ SessionEnds
  \/ FormatResult

FormatSpec == FormatInit /\ [][FormatNext]_vars

(***************************************************************************)
(* The runner that reports status updates.  this.onStatusUpdate?.(message) *)
(* does nothing when no observer is attached, and otherwise calls it; what *)
(* the observer throws is thrown at the call.                              *)
(***************************************************************************)
Observers == {"none", "attached"}
Status(kind, about) == [status |-> kind, about |-> about]
ObserverFault == Fault(TRUE, "observer failed")

\* Mutant: the attached observer throws.
NotifyThrows(onStatusUpdate, message, log) ==
  [log |-> log, threw |-> onStatusUpdate = "attached"]

Notify(onStatusUpdate, message, log) ==
  IF onStatusUpdate = "none"
  THEN [log |-> log, threw |-> FALSE]
  ELSE [log |-> Append(log, message), threw |-> FALSE]

Raise(st, fault) == [st EXCEPT !.pc = "threw", !.fault = fault]
\* A status update outside any try block of its function.
Say(onStatusUpdate, st, kind, about) ==
  LET n == Notify(onStatusUpdate, Status(kind, about), st.log)
  IN IF n.threw THEN Raise(st, ObserverFault) ELSE [st EXCEPT !.log = n.log]

RECURSIVE processToolCallsObserved(_, _, _, _, _, _)
processToolCallsObserved(onStatusUpdate, registry, toolCalls, outcomes, i, st) ==
  IF st.pc = "threw" \/ i > Len(toolCalls) THEN st
  ELSE LET toolCall == toolCalls[i]
       IN IF getTool(registry, toolCall.name) = Null
          THEN LET said == Say(onStatusUpdate, st, "Error", toolCall.name)
               IN processToolCallsObserved(onStatusUpdate, registry, toolCalls, outcomes, i + 1,
                    IF said.pc = "threw" THEN said
                    ELSE [said EXCEPT !.results = Append(@, NotFoundEntry(toolCall))])
          ELSE LET ran == [st EXCEPT !.invoked = Append(@, toolCall.name)]
                   n == IF outcomes[i].k = "ok"
                        THEN Notify(onStatusUpdate, Status("completed", toolCall.name), ran.log)
                        ELSE [log |-> ran.log, threw |-> FALSE]
                   \* what the try block ends with
                   tried == IF n.threw THEN Threw(ObserverFault) ELSE outcomes[i]
                   inTry == [ran EXCEPT !.log = n.log]
                   inCatch == Say(onStatusUpdate, inTry, "failed", toolCall.name)
               IN processToolCallsObserved(onStatusUpdate, registry, toolCalls, outcomes, i + 1,
                    IF tried.k = "ok"
                    THEN [inTry EXCEPT !.results = Append(@, OutcomeEntry(toolCall, tried))]
                    ELSE IF inCatch.pc = "threw" THEN inCatch
                         ELSE [inCatch EXCEPT !.results = Append(@, OutcomeEntry(toolCall, tried))])

\* The scan of the results with the defaulting decoder.
ScanForReturnDefaulting(toolResults) ==
  LET hits == {i \in 1..Len(toolResults) :
                 /\ toolResults[i].result # Null
                 /\ Truthy(toolResults[i].result.llmContent)
                 /\ checkForAgentReturnDefaulting(toolResults[i].result.llmContent) # Null}
  IN IF hits = {} THEN Null
     ELSE checkForAgentReturnDefaulting(
            toolResults[CHOOSE i \in hits : \A j \in hits : i <= j].result.llmContent)

RECURSIVE SayCalling(_, _, _, _)
SayCalling(onStatusUpdate, toolCalls, i, st) ==
  IF st.pc = "threw" \/ i > Len(toolCalls) THEN st
  ELSE SayCalling(onStatusUpdate, toolCalls, i + 1,
                  Say(onStatusUpdate, st, "calling", toolCalls[i].name))

\* turnsRemaining--, then the loop test.
EndOfIteration(st) ==
  [st EXCEPT !.turnsRemaining = @ - 1, !.pc = IF st.turnsRemaining - 1 > 0 THEN "turn" ELSE "summary"]

\* One iteration of the while loop of runAgentTurns.
TurnObserved(onStatusUpdate, registry, st, modelResponse, toolCallRequests, outcomes) ==
  LET thought == IF Trim(modelResponse) # ""
                 THEN Say(onStatusUpdate, st, "thinking", modelResponse) ELSE st
      called == SayCalling(onStatusUpdate, toolCallRequests, 1,
                           [thought EXCEPT !.toolCalls = toolCallRequests, !.results = <<>>])
      processed == processToolCallsObserved(onStatusUpdate, registry, toolCallRequests,
                                            outcomes, 1, called)
      agentReturn == ScanForReturnDefaulting(processed.results)
      returning == Say(onStatusUpdate, processed, "returning", "")
  IN IF thought.pc = "threw" THEN thought
     ELSE IF Len(toolCallRequests) > 0
          THEN IF processed.pc = "threw" THEN processed
               ELSE IF agentReturn # Null
                    THEN IF returning.pc = "threw" THEN returning
                         ELSE [returning EXCEPT !.pc = "returned", !.result = agentReturn]
                    ELSE EndOfIteration([processed EXCEPT
                                           !.next = ResponsesMessage(processed.results)])
          ELSE EndOfIteration([thought EXCEPT !.toolCalls = <<>>, !.results = <<>>,
                 !.next = IF Trim(modelResponse) # "" THEN NudgeReturnMessage
                          ELSE NudgeContinueMessage])

\* requestAgentSummary: whatever is thrown inside is caught.  The loop's
\* lastMessage is gone when it runs.
SummaryObserved(onStatusUpdate, registry, st, toolCallRequests, outcomes) ==
  LET processed == processToolCallsObserved(onStatusUpdate, registry, toolCallRequests,
                     outcomes, 1, [st EXCEPT !.toolCalls = toolCallRequests, !.results = <<>>,
                                             !.next = Null])
      agentReturn == ScanForReturnDefaulting(processed.results)
  IN IF processed.pc = "threw"
     THEN [processed EXCEPT !.pc = "returned", !.fault = Null, !.result = DefaultFailure]
     ELSE [processed EXCEPT !.pc = "returned",
                            !.result = IF agentReturn # Null THEN agentReturn ELSE DefaultFailure]

\* run up to the call of runAgentTurns, and run after it returned.
RunStartsObserved(onStatusUpdate, st) ==
  LET said == Say(onStatusUpdate, st, "Starting task", "")
  IN IF said.pc = "threw" THEN said
     ELSE [said EXCEPT !.pc = IF maxTurns > 0 THEN "turn" ELSE "summary",
                       !.turnsRemaining = maxTurns]
RunReturnsObserved(onStatusUpdate, st) ==
  LET said == Say(onStatusUpdate, st, "Task completed",
                  IF Falsy(st.result.success) THEN "Failed" ELSE "Success")
  IN IF said.pc = "threw" THEN said ELSE [said EXCEPT !.pc = "done"]

(***************************************************************************)
(* TurnSpec: the two runs are fed the same Turn responses and the same     *)
(* capability outcomes, step by step.                                      *)
(***************************************************************************)
ObservedRun ==
  [pc |-> "new", turnsRemaining |-> 0, log |-> <<>>, invoked |-> <<>>, toolCalls |-> <<>>,
   results |-> <<>>, next |-> Null, result |-> Null, fault |-> Null]
\* What the capabilities of a batch can produce, one outcome per request; an
\* execute can also throw an Error with an empty message.
OutcomesOf(toolCall) ==
  IF toolCall.name = "return_from_task" THEN ExecuteOutcomes(toolCall)
  ELSE ExecuteOutcomes(toolCall) \cup {Threw(Fault(TRUE, ""))}
BatchOutcomes(toolCalls) ==
  {outcomes \in [1..Len(toolCalls) -> UNION {OutcomesOf(c) : c \in ToolCalls}] :
     \A i \in 1..Len(toolCalls) : outcomes[i] \in OutcomesOf(toolCalls[i])}

TurnInit ==
  /\ SessionIdle
  /\ RegistryIdle
  /\ CodecIdle
  /\ OthersIdle("turn")
  /\ observed = [o \in Observers |-> ObservedRun]

ObservedRunStarts ==
  /\ observed["none"].pc = "new"
  /\ observed' = [o \in Observers |->
                    IF observed[o].pc = "new" THEN RunStartsObserved(o, observed[o])
                    ELSE observed[o]]
  /\ UNCHANGED nonTurnVars

ObservedTurnCompletes ==
  /\ observed["none"].pc = "turn"
  /\ \E modelResponse \in Contents, batch \in Batches :
       \E outcomes \in BatchOutcomes(batch) :
         observed' = [o \in Observers |->
                        IF observed[o].pc = "turn"
                        THEN TurnObserved(o, createAgentToolRegistry(ParentRegistry, "s1"),
                                          observed[o], modelResponse, WithCallIds(batch), outcomes)
                        ELSE observed[o]]
  /\ UNCHANGED nonTurnVars

ObservedSummaryCompletes ==
  /\ observed["none"].pc = "summary"
  /\ \E batch \in Batches :
       \E outcomes \in BatchOutcomes(batch) :
         observed' = [o \in Observers |->
                        IF observed[o].pc = "summary"
                        THEN SummaryObserved(o, createAgentToolRegistry(ParentRegistry, "s1"),
                                             observed[o], WithCallIds(batch), outcomes)
                        ELSE observed[o]]
  /\ UNCHANGED nonTurnVars

ObservedRunReturns ==
  /\ observed["none"].pc = "returned"
  /\ observed' = [o \in Observers |->
                    IF observed[o].pc = "returned" THEN RunReturnsObserved(o, observed[o])
                    ELSE observed[o]]
  /\ UNCHANGED nonTurnVars

TurnNext ==
  \/ ObservedRunStarts
  \/ ObservedTurnCompletes
  \/ ObservedSummaryCompletes
  \/ ObservedRunReturns

TurnSpec == TurnInit /\ [][TurnNext]_vars

(***************************************************************************)
(* Paths.  A path is absolute or not and has segments; a segment is a      *)
(* sequence of characters.  The string of a path is what startsWith        *)
(* compares; the file of an absolute path is what the file system opens    *)
(* for it, '..' segments resolved.                                         *)
(***************************************************************************)
MaxSegments == 3
Path(absolute, segs) == [absolute |-> absolute, segs |-> segs]
DotDot == <<".", ".">>
RootPath == Path(TRUE, <<<<"p">>>>)
SegmentNames == {<<"p">>, <<"p", "e">>, <<"a">>, DotDot}
Paths ==
  {Path(absolute, segs) : absolute \in BOOLEAN,
                          segs \in SeqsUpTo(SegmentNames, MaxSegments) \ {<<>>}}

RECURSIVE PathString(_)
PathString(path) ==
  IF path.segs = <<>> THEN IF path.absolute THEN <<"/">> ELSE <<>>
  ELSE LET front == PathString(Path(path.absolute, SubSeq(path.segs, 1, Len(path.segs) - 1)))
           last == path.segs[Len(path.segs)]
       IN IF Len(path.segs) = 1 THEN front \o last ELSE front \o <<"/">> \o last
startsWith(string, prefix) ==
  /\ Len(prefix) <= Len(string)
  /\ SubSeq(string, 1, Len(prefix)) = prefix
RECURSIVE Normalize(_, _)
Normalize(segs, done) ==
  IF segs = <<>> THEN done
  ELSE Normalize(Tail(segs),
                 IF Head(segs) = DotDot
                 THEN IF done = <<>> THEN done ELSE SubSeq(done, 1, Len(done) - 1)
                 ELSE Append(done, Head(segs)))
isAbsolute(path) == path.absolute
resolve(from, to) == Path(TRUE, Normalize(from.segs \o to.segs, <<>>))
FileOf(absolutePath) == Normalize(absolutePath.segs, <<>>)

(***************************************************************************)
(* FileTool.execute and the two RestrictedFileTool.execute.  An outcome    *)
(* is a returned result or a thrown error, with the accesses made to the   *)
(* file system (every operation starts with existsSync on the path).       *)
(***************************************************************************)
FileOperations == {"read", "edit", "smartEdit", "write"}
NoPath == Path(FALSE, <<>>)
FileResult(status, message) ==
  [k |-> "ok", status |-> status, message |-> message, accesses |-> <<>>, delegated |-> FALSE]
FileThrows(message) ==
  [k |-> "throw", status |-> "", message |-> message, accesses |-> <<>>, delegated |-> FALSE]
\* The error validateAndParseArgs throws, "" when it returns.
validateAndParseArgs(args) ==
  IF args.operation = "" \/ args.path = NoPath THEN "operation and path are required"
  ELSE IF args.operation \in {"edit", "smartEdit"} /\ ~args.payload
       THEN "operation parameter is required"
       ELSE ""

FileToolExecute(args) ==
  LET absolutePath == IF isAbsolute(args.path) THEN args.path ELSE resolve(RootPath, args.path)
  IN IF validateAndParseArgs(args) # "" THEN FileThrows(validateAndParseArgs(args))
     ELSE IF ~startsWith(PathString(absolutePath), PathString(RootPath))
          THEN FileResult("error", "Path must be within project root")
          ELSE IF args.operation \in FileOperations
               THEN [FileResult("done", "") EXCEPT
                       !.accesses = <<[operation |-> args.operation,
                                       file |-> FileOf(absolutePath)]>>]
               ELSE FileResult("error", "Unknown operation")

NotAllowed == FileResult("error", "Operation is not allowed")
Delegate(args) == [FileToolExecute(args) EXCEPT !.delegated = TRUE]
\* Mutant: every operation is delegated.
RestrictedExecuteLetsAllThrough(args) == Delegate(args)
\* The RestrictedFileTool that takes FileParams.
RestrictedExecute(args) ==
  IF args.operation # "read" THEN NotAllowed ELSE Delegate(args)
\* The RestrictedFileTool that parses its arguments first.
RestrictedParsingExecute(args) ==
  IF validateAndParseArgs(args) # "" THEN FileThrows(validateAndParseArgs(args))
  ELSE IF args.operation # "read" THEN NotAllowed ELSE Delegate(args)

(***************************************************************************)
(* FileSpec: one call of one of the three execute methods, with any        *)
(* arguments.                                                              *)
(***************************************************************************)
FileRequests ==
  [operation : FileOperations \cup {"delete", ""},
   path : Paths \cup {NoPath},
   payload : BOOLEAN]

FileInit ==
  /\ SessionIdle
  /\ RegistryIdle
  /\ CodecIdle
  /\ OthersIdle("file")
  /\ fileTool = "none"
  /\ fileRequest = Null
  /\ fileOutcome = Null

FileToolExecutes ==
  /\ fileTool = "none"
  /\ \E args \in FileRequests :
       /\ fileRequest' = args
       /\ fileOutcome' = FileToolExecute(args)
  /\ fileTool' = "FileTool"
  /\ UNCHANGED nonFileVars

RestrictedFileToolExecutes ==
  /\ fileTool = "none"
  /\ \E args \in FileRequests :
       /\ fileRequest' = args
       /\ fileOutcome' = RestrictedExecute(args)
  /\ fileTool' = "RestrictedFileTool"
  /\ UNCHANGED nonFileVars

RestrictedParsingFileToolExecutes ==
  /\ fileTool = "none"
  /\ \E args \in FileRequests :
       /\ fileRequest' = args
       /\ fileOutcome' = RestrictedParsingExecute(args)
  /\ fileTool' = "RestrictedFileTool (parsing)"
  /\ UNCHANGED nonFileVars

FileNext ==
  \/ FileToolExecutes
  \/ RestrictedFileToolExecutes
  \/ RestrictedParsingFileToolExecutes

FileSpec == FileInit /\ [][FileNext]_vars

(***************************************************************************)
(* TaskTool.  A task is [id, description], id n standing for "task-n";     *)
(* in the parameters an absent id is 0, an absent position is -1 and an    *)
(* absent description is "" (the code treats both as missing).             *)
(***************************************************************************)
MAX_COMPLETED_TASKS == 5
Task(id, description) == [id |-> id, description |-> description]
TaskParams(operation, description, id, position) ==
  [operation |-> operation, description |-> description, id |-> id, position |-> position]
PendingIds(list) == {list.pending[i].id : i \in 1..Len(list.pending)}
findIndex(tasks, id) ==
  IF \E i \in 1..Len(tasks) : tasks[i].id = id
  THEN CHOOSE i \in 1..Len(tasks) : tasks[i].id = id /\ \A j \in 1..(i - 1) : tasks[j].id # id
  ELSE 0
\* Array.splice(position, 0, task) and Array.splice(index, 1), 1-based here.
InsertAt(tasks, i, task) ==
  SubSeq(tasks, 1, i - 1) \o <<task>> \o SubSeq(tasks, i, Len(tasks))
RemoveAt(tasks, i) == SubSeq(tasks, 1, i - 1) \o SubSeq(tasks, i + 1, Len(tasks))

\* The error validateToolParams returns, "" for null.
validateToolParams(list, params) ==
  CASE params.operation = "add" ->
         IF Trim(params.description) = "" THEN "Description is required for add operation"
         ELSE IF params.position # -1 /\ params.position > Len(list.pending)
              THEN "Position is out of range"
              ELSE ""
    [] params.operation = "update" ->
         IF params.id = 0 THEN "ID is required for update operation"
         ELSE IF Trim(params.description) = ""
              THEN "Description is required for update operation"
              ELSE IF params.id \notin PendingIds(list) THEN "Task not found in pending tasks"
                   ELSE ""
    [] params.operation = "complete" ->
         IF params.id # 0 /\ params.id \notin PendingIds(list)
         THEN "Task not found in pending tasks"
         ELSE IF params.id = 0 /\ Len(list.pending) = 0 THEN "No pending tasks to complete"
              ELSE ""
    [] OTHER -> ""

TaskState(list, counter, log, params, error, issued) ==
  [taskList |-> list, taskCounter |-> counter, completedLog |-> log,
   result |-> [operation |-> params.operation, id |-> params.id, error |-> error,
               issued |-> issued]]

\* Mutant: the id is the number of pending tasks plus one.
addTaskNumbersByLength(list, counter, log, params) ==
  LET newTask == Task(Len(list.pending) + 1, Trim(params.description))
  IN TaskState([list EXCEPT !.pending =
                  IF params.position = -1 THEN Append(@, newTask)
                  ELSE InsertAt(@, params.position + 1, newTask)],
               counter + 1, log, params, "", newTask.id)
addTaskToList(list, counter, log, params) ==
  LET newTask == Task(counter + 1, Trim(params.description))
  IN TaskState([list EXCEPT !.pending =
                  IF params.position = -1 THEN Append(@, newTask)
                  ELSE InsertAt(@, params.position + 1, newTask)],
               counter + 1, log, params, "", newTask.id)

\* Mutant: the completed task is pushed at the end of the history.
completeTaskAtEnd(list, counter, log, params) ==
  LET taskIndex == IF params.id # 0 THEN findIndex(list.pending, params.id) ELSE 1
      taskToComplete == list.pending[taskIndex]
      completed == Append(list.completed, taskToComplete)
  IN TaskState([pending |-> RemoveAt(list.pending, taskIndex),
                completed |-> IF Len(completed) > MAX_COMPLETED_TASKS
                              THEN SubSeq(completed, 1, MAX_COMPLETED_TASKS)
                              ELSE completed],
               counter, Append(log, taskToComplete.id), params, "", 0)
completeTask(list, counter, log, params) ==
  LET taskIndex == IF params.id # 0 THEN findIndex(list.pending, params.id) ELSE 1
  IN IF (params.id # 0 /\ taskIndex = 0) \/ (params.id = 0 /\ Len(list.pending) = 0)
     THEN TaskState(list, counter, log, params, "Task not found", 0)
     ELSE LET taskToComplete == list.pending[taskIndex]
              completed == <<taskToComplete>> \o list.completed
          IN TaskState([pending |-> RemoveAt(list.pending, taskIndex),
                        completed |-> IF Len(completed) > MAX_COMPLETED_TASKS
                                      THEN SubSeq(completed, 1, MAX_COMPLETED_TASKS)
                                      ELSE completed],
                       counter, Append(log, taskToComplete.id), params, "", 0)

\* Mutant: the task is looked up in the completed tasks too.
updateTaskAnywhere(list, counter, log, params) ==
  LET inPending == findIndex(list.pending, params.id)
      inCompleted == findIndex(list.completed, params.id)
  IN IF inPending # 0
     THEN TaskState([list EXCEPT !.pending[inPending].description = Trim(params.description)],
                    counter, log, params, "", 0)
     ELSE IF inCompleted # 0
          THEN TaskState([list EXCEPT
                            !.completed[inCompleted].description = Trim(params.description)],
                         counter, log, params, "", 0)
          ELSE TaskState(list, counter, log, params, "Task not found", 0)
updateTask(list, counter, log, params) ==
  LET index == findIndex(list.pending, params.id)
  IN IF index = 0 THEN TaskState(list, counter, log, params, "Task not found", 0)
     ELSE TaskState([list EXCEPT !.pending[index].description = Trim(params.description)],
                    counter, log, params, "", 0)

\* Mutant: an add takes its number before it is validated.
TaskToolExecuteCountsBeforeValidation(list, counter, log, params) ==
  LET taken == IF params.operation = "add" THEN counter + 1 ELSE counter
  IN IF validateToolParams(list, params) # ""
     THEN TaskState(list, taken, log, params, validateToolParams(list, params), 0)
     ELSE CASE params.operation = "add" -> addTaskToList(list, counter, log, params)
            [] params.operation = "list" -> TaskState(list, counter, log, params, "", 0)
            [] params.operation = "complete" -> completeTask(list, counter, log, params)
            [] params.operation = "update" -> updateTask(list, counter, log, params)
            [] OTHER -> TaskState(list, counter, log, params, "Unknown operation", 0)

\* Mutant: update is not validated.
TaskToolExecuteNoUpdateValidation(list, counter, log, params) ==
  IF params.operation = "update" THEN updateTaskAnywhere(list, counter, log, params)
  ELSE IF validateToolParams(list, params) # ""
       THEN TaskState(list, counter, log, params, validateToolParams(list, params), 0)
       ELSE CASE params.operation = "add" -> addTaskToList(list, counter, log, params)
              [] params.operation = "complete" -> completeTask(list, counter, log, params)
              [] OTHER -> TaskState(list, counter, log, params, "", 0)
TaskToolExecute(list, counter, log, params) ==
  IF validateToolParams(list, params) # ""
  THEN TaskState(list, counter, log, params, validateToolParams(list, params), 0)
  ELSE CASE params.operation = "add" -> addTaskToList(list, counter, log, params)
         [] params.operation = "list" -> TaskState(list, counter, log, params, "", 0)
         [] params.operation = "complete" -> completeTask(list, counter, log, params)
         [] params.operation = "update" -> updateTask(list, counter, log, params)
         [] OTHER -> TaskState(list, counter, log, params, "Unknown operation", 0)

(***************************************************************************)
(* TaskSpec: any sequence of add, list and complete calls of execute on    *)
(* one TaskTool, long enough for the completed history to overflow.        *)
(* TaskUpdateSpec: any sequence of calls of execute, update included, on a *)
(* TaskTool with fewer tasks.                                              *)
(***************************************************************************)
MaxAdds == 6
MaxUpdatableTasks == 3
TaskDescriptions == {"", "  ", "Task"}
TaskIdChoices == 0..(MaxAdds + 1)

TaskInit ==
  /\ SessionIdle
  /\ RegistryIdle
  /\ CodecIdle
  /\ OthersIdle("task")
  /\ taskList = [pending |-> <<>>, completed |-> <<>>]
  /\ taskIds = 0
  /\ completedLog = <<>>
  /\ taskResult = Null

TaskToolRuns(params) ==
  LET after == TaskToolExecute(taskList, taskIds, completedLog, params)
  IN /\ taskList' = after.taskList
     /\ taskIds' = after.taskCounter
     /\ completedLog' = after.completedLog
     /\ taskResult' = after.result
     /\ UNCHANGED nonTaskVars

TaskAdd ==
  /\ taskIds < MaxAdds
  /\ \E description \in TaskDescriptions, position \in {-1, 0, Len(taskList.pending) + 1} :
       TaskToolRuns(TaskParams("add", description, 0, position))

TaskAddFew ==
  /\ taskIds < MaxUpdatableTasks
  /\ \E description \in TaskDescriptions, position \in {-1, 0, Len(taskList.pending) + 1} :
       TaskToolRuns(TaskParams("add", description, 0, position))

TaskListed == TaskToolRuns(TaskParams("list", "", 0, -1))

TaskComplete == \E id \in TaskIdChoices : TaskToolRuns(TaskParams("complete", "", id, -1))

TaskUpdate ==
  \E id \in TaskIdChoices, description \in {"", "Updated"} :
    TaskToolRuns(TaskParams("update", description, id, -1))

TaskNext ==
  \/ TaskAdd
  \/ TaskListed
  \/ TaskComplete

TaskSpec == TaskInit /\ [][TaskNext]_vars

TaskUpdateNext ==
  \/ TaskAddFew
  \/ TaskListed
  \/ TaskComplete
  \/ TaskUpdate

TaskUpdateSpec == TaskInit /\ [][TaskUpdateNext]_vars

(***************************************************************************)
(* OutputSummarizer.summarizeIfNeeded.  A content is a sequence of units:  *)
(* a character "x", a line break, or one ANSI escape sequence "ESC".       *)
(***************************************************************************)
MaxContent == 3
PreviewLines == 20
ContentUnits == {"x", "\n", "ESC"}
SummaryContents == SeqsUpTo(ContentUnits, MaxContent)
SummaryThresholds == 0..(MaxContent - 1)

\* strip-ansi: the content without its escape sequences.
stripAnsi(content) == SelectSeq(content, LAMBDA unit : unit # "ESC")

\* content.split('\n').length
LineCount(content) == Len(SelectSeq(content, LAMBDA unit : unit = "\n")) + 1

\* The lines of a content, as split('\n') gives them.
RECURSIVE SplitLines(_, _, _)
SplitLines(content, i, line) ==
  IF i > Len(content) THEN <<line>>
  ELSE IF content[i] = "\n" THEN <<line>> \o SplitLines(content, i + 1, <<>>)
  ELSE SplitLines(content, i + 1, Append(line, content[i]))

FirstLines(lines, n) == SubSeq(lines, 1, IF Len(lines) < n THEN Len(lines) ELSE n)

\* What the model client does with a request: getGeminiClient gives no
\* client or throws, or generateContent answers with a text, answers with
\* nothing getResponseText can read, or rejects.
SummaryClients == {"present", "missing", "throws"}
ModelOutcomes == {"text", "no text", "rejects"}
SummaryText == <<"x">>

Unsummarized(cleanContent) ==
  [isSummarized |-> FALSE, content |-> cleanContent,
   originalLength |-> Len(cleanContent), fallback |-> FALSE]

Summarized(text, originalLength) ==
  [isSummarized |-> TRUE, content |-> text, originalLength |-> originalLength,
   summarizedLength |-> Len(text), fallback |-> FALSE]

createFallbackSummary(content, originalLength) ==
  LET lines == SplitLines(content, 1, <<>>)
  IN [isSummarized |-> TRUE,
      content |-> [characters |-> originalLength, lines |-> Len(lines),
                   preview |-> FirstLines(lines, PreviewLines),
                   truncated |-> Len(lines) > PreviewLines],
      originalLength |-> originalLength, fallback |-> TRUE]

SummaryCallState(pc, content, maxAllowedCharacters, contacts, timer, aborted, settled, result) ==
  [pc |-> pc, content |-> content, maxAllowedCharacters |-> maxAllowedCharacters,
   contacts |-> contacts, timer |-> timer, aborted |-> aborted,
   settled |-> settled, result |-> result]

\* The catch clause of summarizeIfNeeded rethrowing instead of falling back.
SummaryCompletesRethrows(call, outcome) ==
  LET cleanContent == stripAnsi(call.content)
  IN IF outcome = "text"
       THEN [call EXCEPT !.pc = "returned", !.timer = "cleared", !.settled = outcome,
                         !.result = Summarized(SummaryText, Len(cleanContent))]
       ELSE [call EXCEPT !.pc = "raised", !.timer = "cleared", !.settled = outcome]

\* The rest of the call once the model call has settled: the finally clause
\* clears the timer; a text is the summary; everything else is an error the
\* catch clause of summarizeIfNeeded answers with the fallback summary.
SummaryCompletes(call, outcome) ==
  LET cleanContent == stripAnsi(call.content)
  IN IF outcome = "text"
       THEN [call EXCEPT !.pc = "returned", !.timer = "cleared", !.settled = outcome,
                         !.result = Summarized(SummaryText, Len(cleanContent))]
       ELSE [call EXCEPT !.pc = "returned", !.timer = "cleared", !.settled = outcome,
                         !.result = createFallbackSummary(cleanContent, Len(cleanContent))]

\* summarizeIfNeeded up to its first await.
summarizeIfNeeded(content, maxAllowedCharacters, client) ==
  LET cleanContent == stripAnsi(content)
      originalLength == Len(cleanContent)
      started == SummaryCallState("awaiting", content, maxAllowedCharacters, 1,
                                  "armed", FALSE, "none", Null)
  IN IF originalLength <= maxAllowedCharacters
       THEN SummaryCallState("returned", content, maxAllowedCharacters, 0, "none",
                             FALSE, "none", Unsummarized(cleanContent))
     ELSE IF client = "present" THEN started
     ELSE SummaryCompletes(started, client)

SummarizerInit ==
  /\ SessionIdle
  /\ RegistryIdle
  /\ CodecIdle
  /\ OthersIdle("summarizer")
  /\ summaryCall = SummaryCallState("idle", <<>>, 0, 0, "none", FALSE, "none", Null)

SummarizeCalled ==
  /\ summaryCall.pc = "idle"
  /\ \E content \in SummaryContents, maxAllowedCharacters \in SummaryThresholds,
        client \in SummaryClients :
       summaryCall' = summarizeIfNeeded(content, maxAllowedCharacters, client)
  /\ UNCHANGED nonSummarizerVars

\* setTimeout(() => controller.abort(), timeoutMs)
SummaryTimeoutFires ==
  /\ summaryCall.pc = "awaiting"
  /\ summaryCall.timer = "armed"
  /\ summaryCall' = [summaryCall EXCEPT !.timer = "fired", !.aborted = TRUE]
  /\ UNCHANGED nonSummarizerVars

\* generateContent settles on its own account.
ModelCallSettles ==
  /\ summaryCall.pc = "awaiting"
  /\ \E outcome \in ModelOutcomes : summaryCall' = SummaryCompletes(summaryCall, outcome)
  /\ UNCHANGED nonSummarizerVars

\* generateContent rejects because its signal was aborted.
ModelCallAborted ==
  /\ summaryCall.pc = "awaiting"
  /\ summaryCall.aborted
  /\ summaryCall' = SummaryCompletes(summaryCall, "aborted")
  /\ UNCHANGED nonSummarizerVars

SummarizerNext ==
  \/ SummarizeCalled
  \/ SummaryTimeoutFires
  \/ ModelCallSettles
  \/ ModelCallAborted

SummarizerSpec == SummarizerInit /\ [][SummarizerNext]_vars

(***************************************************************************)
(* FileTool.edit.  A file is the sequence of its lines (content.split of   *)
(* a file gives one line at least); a change is [line, operation,          *)
(* content].                                                               *)
(***************************************************************************)
MaxLines == 2
MaxChanges == 2
LineTexts == {"", "a"}
EditFiles == UNION {[1..n -> LineTexts] : n \in 1..MaxLines}
Change(line, operation, content) ==
  [line |-> line, operation |-> operation, content |-> content]
EditChanges ==
  {Change(line, operation, "new") :
     line \in 0..(MaxLines + 1), operation \in {"replace", "insert", "delete", "move"}}
ChangeLists == UNION {[1..n -> EditChanges] : n \in 0..MaxChanges}

\* [...changes].sort((a, b) => b.line - a.line): descending by line, changes
\* of one line in the order given.
RECURSIVE SortByLineDescending(_, _, _)
SortByLineDescending(changes, i, sorted) ==
  IF i > Len(changes) THEN sorted
  ELSE LET change == changes[i]
           before == Cardinality({j \in 1..Len(sorted) : sorted[j].line >= change.line})
       IN SortByLineDescending(changes, i + 1,
            SubSeq(sorted, 1, before) \o <<change>> \o SubSeq(sorted, before + 1, Len(sorted)))

\* The index Array.splice starts at, 0-based.
SpliceStart(start, length) ==
  IF start < 0 THEN Max(length + start, 0)
  ELSE IF start > length THEN length ELSE start

EditStep(ok, lines, kind) == [ok |-> ok, lines |-> lines, kind |-> kind]

\* Mutant: delete does not check its line.
applyChangeDeleteUnchecked(lines, change) ==
  LET lineIndex == change.line - 1
      outOfRange == lineIndex < 0 \/ lineIndex >= Len(lines)
      at == SpliceStart(lineIndex, Len(lines))
  IN CASE change.operation = "replace" ->
            IF outOfRange THEN EditStep(FALSE, lines, "range")
            ELSE EditStep(TRUE, [lines EXCEPT ![lineIndex + 1] = change.content], "")
       [] change.operation = "insert" ->
            EditStep(TRUE, SubSeq(lines, 1, at) \o <<change.content>>
                           \o SubSeq(lines, at + 1, Len(lines)), "")
       [] change.operation = "delete" ->
            EditStep(TRUE, SubSeq(lines, 1, at) \o SubSeq(lines, at + 2, Len(lines)), "")
       [] OTHER -> EditStep(FALSE, lines, "unknown")

\* One pass of the for loop over sortedChanges.
applyChange(lines, change) ==
  LET lineIndex == change.line - 1
      outOfRange == lineIndex < 0 \/ lineIndex >= Len(lines)
      at == SpliceStart(lineIndex, Len(lines))
  IN CASE change.operation = "replace" ->
            IF outOfRange THEN EditStep(FALSE, lines, "range")
            ELSE EditStep(TRUE, [lines EXCEPT ![lineIndex + 1] = change.content], "")
       [] change.operation = "insert" ->
            EditStep(TRUE, SubSeq(lines, 1, at) \o <<change.content>>
                           \o SubSeq(lines, at + 1, Len(lines)), "")
       [] change.operation = "delete" ->
            IF outOfRange THEN EditStep(FALSE, lines, "range")
            ELSE EditStep(TRUE, SubSeq(lines, 1, at) \o SubSeq(lines, at + 2, Len(lines)), "")
       [] OTHER -> EditStep(FALSE, lines, "unknown")

\* The for loop: it is left at the first change that is rejected.
RECURSIVE applyChanges(_, _, _)
applyChanges(lines, sortedChanges, i) ==
  IF i > Len(sortedChanges) THEN EditStep(TRUE, lines, "")
  ELSE LET step == applyChange(lines, sortedChanges[i])
       IN IF step.ok THEN applyChanges(step.lines, sortedChanges, i + 1) ELSE step

EditResult(status, kind) == [status |-> status, kind |-> kind]
Disk(exists, lines) == [exists |-> exists, lines |-> lines]
EditCallState(pc, changes, original, toWrite, result) ==
  [pc |-> pc, changes |-> changes, original |-> original, toWrite |-> toWrite,
   result |-> result]

EditInit ==
  /\ SessionIdle
  /\ RegistryIdle
  /\ CodecIdle
  /\ OthersIdle("edit")
  /\ editDisk \in {Disk(TRUE, lines) : lines \in EditFiles} \cup {Disk(FALSE, <<>>)}
  /\ editCall = EditCallState("idle", <<>>, <<>>, <<>>, Null)
  /\ editWrites = 0

\* edit is called: existsSync, then readFile is awaited.
EditCalled ==
  /\ editCall.pc = "idle"
  /\ \E changes \in ChangeLists :
       editCall' = IF ~editDisk.exists
                   THEN EditCallState("done", changes, <<>>, <<>>,
                                      EditResult("error", "not found"))
                   ELSE EditCallState("reading", changes, <<>>, <<>>, Null)
  /\ UNCHANGED <<editDisk, editWrites>>
  /\ UNCHANGED nonEditVars

\* readFile resolves: the changes are applied to the lines in memory, and
\* either an error is returned or writeFile is called and awaited.
EditReadCompletes ==
  /\ editCall.pc = "reading"
  /\ LET lines == editDisk.lines
         applied == applyChanges(lines, SortByLineDescending(editCall.changes, 1, <<>>), 1)
     IN IF applied.ok
        THEN /\ editCall' = [editCall EXCEPT !.pc = "writing", !.original = lines,
                                             !.toWrite = applied.lines]
             /\ editWrites' = editWrites + 1
        ELSE /\ editCall' = [editCall EXCEPT !.pc = "done", !.original = lines,
                                             !.result = EditResult("error", applied.kind)]
             /\ editWrites' = editWrites
  /\ UNCHANGED editDisk
  /\ UNCHANGED nonEditVars

\* readFile rejects: the catch clause answers.
EditReadFails ==
  /\ editCall.pc = "reading"
  /\ editCall' = [editCall EXCEPT !.pc = "done", !.result = EditResult("error", "io")]
  /\ UNCHANGED <<editDisk, editWrites>>
  /\ UNCHANGED nonEditVars

EditWriteCompletes ==
  /\ editCall.pc = "writing"
  /\ editDisk' = Disk(TRUE, editCall.toWrite)
  /\ editCall' = [editCall EXCEPT !.pc = "done", !.result = EditResult("success", "")]
  /\ UNCHANGED editWrites
  /\ UNCHANGED nonEditVars

\* writeFile rejects, having written the file, a part of it, or nothing.
EditWriteFails ==
  /\ editCall.pc = "writing"
  /\ \E written \in 0..Len(editCall.toWrite) :
       editDisk' \in {editDisk, Disk(TRUE, SubSeq(editCall.toWrite, 1, written))}
  /\ editCall' = [editCall EXCEPT !.pc = "done", !.result = EditResult("error", "io")]
  /\ UNCHANGED editWrites
  /\ UNCHANGED nonEditVars

EditNext ==
  \/ EditCalled
  \/ EditReadCompletes
  \/ EditReadFails
  \/ EditWriteCompletes
  \/ EditWriteFails

EditSpec == EditInit /\ [][EditNext]_vars

(***************************************************************************)
(* FileMemory.  Paths and prompts are strings; the model writes them as    *)
(* numbers, 0 being the empty string (the one falsy string).               *)
(***************************************************************************)
MAX_FILES == 100
MAX_SUMMARIES_PER_FILE == 10
MaxMemoryOps == 3
MaxSummaryOps == 12

MemoryEntry(path, lastAccessed, summaries) ==
  [path |-> path, lastAccessed |-> lastAccessed, summaries |-> summaries]
IndexOfPath(mem, path) ==
  IF \E i \in 1..Len(mem) : mem[i].path = path
  THEN CHOOSE i \in 1..Len(mem) : mem[i].path = path
  ELSE 0
\* Map.set: a key the Map holds keeps its place.
MapSet(mem, entry) ==
  IF IndexOfPath(mem, entry.path) # 0
  THEN [mem EXCEPT ![IndexOfPath(mem, entry.path)] = entry]
  ELSE Append(mem, entry)
\* The entry the scan of set ends with: the first of those with the
\* smallest lastAccessed.
OldestIndex(mem) ==
  CHOOSE i \in 1..Len(mem) :
    /\ \A j \in 1..Len(mem) : mem[i].lastAccessed <= mem[j].lastAccessed
    /\ \A j \in 1..(i - 1) : mem[j].lastAccessed > mem[i].lastAccessed

set(mem, path, entry) ==
  LET evicting == Len(mem) >= MAX_FILES /\ IndexOfPath(mem, path) = 0
      oldestPath == IF evicting /\ mem # <<>> THEN mem[OldestIndex(mem)].path ELSE 0
  IN MapSet(IF evicting /\ oldestPath # 0 THEN RemoveAt(mem, OldestIndex(mem)) ELSE mem,
            [entry EXCEPT !.path = path])

cacheSummary(mem, path, prompt, now) ==
  LET i == IndexOfPath(mem, path) IN
  IF i = 0 THEN mem
  ELSE LET summaries == mem[i].summaries
           full == Len(summaries) >= MAX_SUMMARIES_PER_FILE
           kept == IF full /\ summaries[1] # 0 THEN Tail(summaries) ELSE summaries
       IN [mem EXCEPT ![i] = MemoryEntry(path, now,
             IF \E k \in 1..Len(kept) : kept[k] = prompt THEN kept ELSE Append(kept, prompt))]

updateAfterEdit(mem, path, now) ==
  LET i == IndexOfPath(mem, path) IN
  IF i # 0 THEN [mem EXCEPT ![i] = MemoryEntry(path, now, <<>>)]
  ELSE set(mem, path, MemoryEntry(path, now, <<>>))

recordLinesShown(mem, path, now) ==
  LET i == IndexOfPath(mem, path) IN
  IF i # 0 THEN [mem EXCEPT ![i].lastAccessed = now]
  ELSE Append(mem, MemoryEntry(path, now, <<>>))

clear(mem) == <<>>

(***************************************************************************)
(* FileMemorySpec: a few operations on a memory that is empty or one file  *)
(* short of MAX_FILES, the state MAX_FILES - 1 calls of set on distinct    *)
(* paths leave.  SummaryCacheSpec: calls of cacheSummary on one tracked    *)
(* file.                                                                   *)
(***************************************************************************)
TrackedBySet(n) == [i \in 1..n |-> MemoryEntry(i, i, <<>>)]
\* The empty path, the first path tracked, and a path not met before.
MemoryPaths == {0, 1, memoryClock}

MemoryInit ==
  /\ SessionIdle
  /\ RegistryIdle
  /\ CodecIdle
  /\ OthersIdle("memory")
  /\ \E n \in {0, MAX_FILES - 1} :
       /\ memory = TrackedBySet(n)
       /\ memoryClock = n + 1
  /\ memoryOps = 0

MemoryCalled(after) ==
  /\ memoryOps < MaxMemoryOps
  /\ memory' = after
  /\ memoryClock' = memoryClock + 1
  /\ memoryOps' = memoryOps + 1
  /\ UNCHANGED nonMemoryVars

MemorySet ==
  \E path \in MemoryPaths :
    MemoryCalled(set(memory, path, MemoryEntry(path, memoryClock, <<>>)))
MemoryCacheSummary ==
  \E path \in MemoryPaths, prompt \in {0, 1} :
    MemoryCalled(cacheSummary(memory, path, prompt, memoryClock))
MemoryUpdateAfterEdit ==
  \E path \in MemoryPaths : MemoryCalled(updateAfterEdit(memory, path, memoryClock))
MemoryRecordLinesShown ==
  \E path \in MemoryPaths : MemoryCalled(recordLinesShown(memory, path, memoryClock))
MemoryClear == MemoryCalled(clear(memory))

FileMemoryNext ==
  \/ MemorySet
  \/ MemoryCacheSummary
  \/ MemoryUpdateAfterEdit
  \/ MemoryRecordLinesShown
  \/ MemoryClear

FileMemorySpec == MemoryInit /\ [][FileMemoryNext]_vars

SummaryCacheInit ==
  /\ SessionIdle
  /\ RegistryIdle
  /\ CodecIdle
  /\ OthersIdle("memory")
  /\ memory = TrackedBySet(1)
  /\ memoryClock = 2
  /\ memoryOps = 0

\* The prompt is the empty one, the oldest one cached, or a new one.
SummaryCached ==
  /\ memoryOps < MaxSummaryOps
  /\ \E prompt \in {0, memoryClock}
                   \cup {memory[1].summaries[k] : k \in 1..Len(memory[1].summaries)} :
       memory' = cacheSummary(memory, 1, prompt, memoryClock)
  /\ memoryClock' = memoryClock + 1
  /\ memoryOps' = memoryOps + 1
  /\ UNCHANGED nonMemoryVars

SummaryCacheSpec == SummaryCacheInit /\ [][SummaryCached]_vars

(***************************************************************************)
(* Vocabulary of the properties.                                           *)
(***************************************************************************)
\* Outcome r decodes as a return signal.
Decodes(r) == r.result # Null /\ checkForAgentReturn(r.result.llmContent) # Null
\* sig is the decoding of the first outcome of toolResults, in request order, that decodes.
IsFirstDecoded(toolResults, sig) ==
  \E i \in 1..Len(toolResults) :
    /\ Decodes(toolResults[i])
    /\ \A j \in 1..(i - 1) : ~Decodes(toolResults[j])
    /\ sig = checkForAgentReturn(toolResults[i].result.llmContent)
\* A computation is busy on the chat: a Turn of it is in progress, or the
\* capability calls of its last Turn are.
LoopBusy == loop.pc \in {"turn", "exec"}
SummaryBusy(c) == summary[c].pc \in {"turn", "exec"}
Busy == (IF LoopBusy THEN {"runAgentTurns"} ELSE {}) \cup {c \in Callers : SummaryBusy(c)}
\* The loop returned a return signal it decoded itself (not its summarization's).
LoopReturnedSignal == loop.pc = "returned" /\ summary["loop"].pc = "idle"
\* The fault that registry construction or a Turn of the main loop raised.
RaisedFault == IF registryFault # Null THEN registryFault ELSE loop.fault

\* C1: handleAgentSpawn never raises; when registry construction or a Turn of
\* the main loop raised a fault with message m it completes with
\* {success:false, description:"Agent failed to execute: m", result:""}, and
\* otherwise with the signal the runner produced.
C1_FaultBecomesExecFailure ==
  hpc = "done" =>
    /\ handlerResult # Null /\ handlerResult.isAgent
    /\ IF RaisedFault # Null
       THEN RaisedFault.isError =>
              handlerResult.result =
                Signal(JBool(FALSE), JStr("Agent failed to execute: " \o RaisedFault.message),
                       JStr(""))
       ELSE handlerResult.result \in {loop.ret, summary["run"].ret}

\* C2: if the deadline timer fires before the turn loop completed, run enters
\* summarization on the chat the loop was using and returns the outcome of
\* that summarization, never what the abandoned loop produces afterwards.
C2_DeadlineWinsReturnsSummary ==
  race = "timer" =>
    /\ hpc \in {"summarizing", "done"}
    /\ summary["run"].pc # "idle"
    /\ summary["run"].chat = loop.chat
    /\ hpc = "summarizing" => summary["run"].pc # "done" /\ handlerResult = Null
    /\ hpc = "done" => /\ summary["run"].pc = "done"
                       /\ handlerResult = [isAgent |-> TRUE, result |-> summary["run"].ret]

C2_Witness ==
  /\ race = "timer"
  /\ hpc = "done"
  /\ loop.pc = "returned"
  /\ loop.ret # summary["run"].ret

\* C3: within one session at most one Turn (with its capability calls) is in
\* progress on the chat at any time, also when the deadline fires while a
\* Turn or a capability call of the loop is in flight.
C3_TurnsNeverOverlap == Cardinality(Busy) <= 1

\* C4: requestAgentSummary is entered at most once per session, whether by
\* exhaustion of the turn budget or by the deadline.
C4_SummaryEnteredOnce == ~(summary["loop"].pc # "idle" /\ summary["run"].pc # "idle")

\* C5: turnsRemaining starts at maxTurns, changes only by a decrement of 1 at
\* the end of an iteration that found no return signal, is never negative; the
\* loop starts at most maxTurns Turns and, no Turn raising, is left only with
\* turnsRemaining = 0 or with a decoded return signal.
C5_Budget ==
  loop.pc # "idle" =>
    /\ loop.turnsRemaining \in 0..maxTurns
    /\ loop.turns \in 1..maxTurns
    /\ loop.pc \in {"turn", "exec"} => loop.turns = maxTurns - loop.turnsRemaining + 1
    /\ loop.pc = "summary" => loop.turnsRemaining = 0
    /\ loop.pc = "returned" =>
         loop.turnsRemaining = 0 \/ (\E sig \in Signals : IsFirstDecoded(loop.results, sig))
C5_Step ==
  /\ loop.pc = "idle" /\ loop'.pc # "idle" =>
       loop'.turnsRemaining = maxTurns /\ loop'.turns = 1
  /\ loop.pc # "idle" /\ loop'.turnsRemaining # loop.turnsRemaining =>
       /\ loop'.turnsRemaining = loop.turnsRemaining - 1
       /\ loop.pc \in {"turn", "exec"}
       /\ loop'.pc \in {"turn", "summary"}
       /\ loop'.pc = "turn" => loop'.turns = loop.turns + 1
  /\ loop.pc # "idle" /\ loop'.turnsRemaining = loop.turnsRemaining =>
       loop'.turns = loop.turns
C5_TurnBudget == [](C5_Budget) /\ [][C5_Step]_vars

C5_Witness ==
  /\ maxTurns = MaxTurnsBound
  /\ loop.pc = "summary"
  /\ loop.turns = maxTurns

\* C6: if an outcome of iteration k decodes as a return signal and the
\* deadline has not fired, run returns the first such signal in request order
\* and starts no Turn k+1 and no summarization Turn.
C6_FirstSignalReturned ==
  race = "loop" /\ LoopReturnedSignal =>
    /\ hpc = "done"
    /\ IsFirstDecoded(loop.results, handlerResult.result)
    /\ loop.turns = maxTurns - loop.turnsRemaining + 1
    /\ \A c \in Callers : summary[c].pc = "idle"

C6_Witness ==
  /\ race = "loop"
  /\ LoopReturnedSignal
  /\ loop.turns = 2
  /\ Len(loop.results) = 2
  /\ Decodes(loop.results[1]) /\ Decodes(loop.results[2])
  /\ checkForAgentReturn(loop.results[1].result.llmContent)
       # checkForAgentReturn(loop.results[2].result.llmContent)
  /\ deadlineTimer = "fired"

C8_SummaryResult ==
  \A c \in Callers :
    summary[c].pc = "done" =>
      IF \E i \in 1..Len(summary[c].results) : Decodes(summary[c].results[i])
      THEN IsFirstDecoded(summary[c].results, summary[c].ret)
      ELSE summary[c].ret =
             Signal(JBool(FALSE),
                    JStr("Agent failed to complete task within time limit and did not provide a summary."),
                    JStr(""))

C8_Witness ==
  /\ summary["run"].pc = "done" /\ summary["run"].threw
  /\ summary["loop"].pc = "done" /\ Len(summary["loop"].results) = MaxBatch
  /\ summary["loop"].ret = DefaultFailure

\* C9: when timeoutMs is not larger than the 30000 ms warning lead, the warning
\* condition is true at the loop's first-iteration check and the first
\* outbound message carries the time-warning suffix.
C9_FirstMessageWarned ==
  timeoutMs <= 30000 /\ loop.pc = "turn" /\ loop.turns = 1 => loop.lastMessage.warned

\* C10: once the deadline has won the race the abandoned turn loop starts no
\* new Turn and invokes no further capability.
C10_Step ==
  race = "timer" =>
    /\ loop'.turns = loop.turns
    /\ loop'.pc = "exec" => loop.pc = "exec" /\ loop'.idx = loop.idx
    /\ summary'["loop"].pc = "turn" => summary["loop"].pc = "turn"
    /\ summary'["loop"].pc = "exec" =>
         summary["loop"].pc = "exec" /\ summary'["loop"].idx = summary["loop"].idx
C10_AbandonedLoopStops == [][C10_Step]_vars

(***************************************************************************)
(* Vocabulary of the properties of processToolCalls.  A dispatch is a call *)
(* of processToolCalls by the turn loop or by a summarization: its batch,  *)
(* the entries pushed so far, whether an execute is awaited (at request    *)
(* idx) and whether its caller has finished with the outcomes.             *)
(***************************************************************************)
Dispatches ==
  {[batch |-> loop.batch, results |-> loop.results, idx |-> loop.idx,
    running |-> loop.pc = "exec", finished |-> loop.pc = "returned", ret |-> loop.ret]}
  \cup {[batch |-> summary[c].batch, results |-> summary[c].results, idx |-> summary[c].idx,
         running |-> summary[c].pc = "exec", finished |-> summary[c].pc = "done",
         ret |-> summary[c].ret] : c \in Callers}
Registered(name) == \E i \in 1..Len(agentRegistry) : agentRegistry[i].name = name
\* Entry e is what the claim says execute's outcome o gives.
IsEntryOf(e, o) ==
  IF o.k = "throw"
  THEN e.result = Null /\ e.error = [t |-> "str", v |-> o.fault.message]
  ELSE e.result = o.result /\ e.error.t = "undefined"
\* Entry e records an invocation of its request's capability.
Invoked(e) == \E o \in ExecuteOutcomes(e.toolCall) : IsEntryOf(e, o)
IsErrorEntry(e) == e.result = Null /\ e.error.t = "str"

\* C12: processToolCalls does not raise when a capability raises.  Every
\* request of the batch gets one entry: an error entry carrying the fault's
\* message when its execute raised, execute's result otherwise; a fault of
\* one call leaves the requests after it to be invoked in turn.
C12_FaultsBecomeOutcomes ==
  /\ loop.pc = "threw" => loop.batch = <<>> /\ loop.fault \in Faults
  /\ \A d \in Dispatches :
       /\ \A i \in 1..Len(d.results) :
            Registered(d.results[i].toolCall.name) => Invoked(d.results[i])
       /\ d.running => Len(d.results) = d.idx - 1 /\ Registered(d.batch[d.idx].name)
       /\ d.finished => Len(d.results) = Len(d.batch)

C12_Witness ==
  \E d \in Dispatches :
    /\ d.finished
    /\ Len(d.batch) = MaxBatch
    /\ IsErrorEntry(d.results[1]) /\ d.results[1].error.v = "ENOENT"
    /\ d.results[MaxBatch].result # Null
    /\ ~Decodes(d.results[MaxBatch])

\* C13: the entries processToolCalls returns are in request order: entry i
\* is the entry of request i of the batch, whether the call succeeded,
\* failed or named no registered capability.
C13_RequestOrder ==
  \A d \in Dispatches :
    /\ Len(d.results) <= Len(d.batch)
    /\ \A i \in 1..Len(d.results) : d.results[i].toolCall = d.batch[i]

C13_Witness ==
  \E d \in Dispatches :
    /\ d.finished
    /\ Len(d.results) = 2
    /\ d.batch[1].name = "read_file" /\ IsErrorEntry(d.results[1])
    /\ d.batch[2].name = "ghost" /\ IsErrorEntry(d.results[2])

\* C14: a request that names a capability absent from the session registry
\* gets a failed entry whose error is the not-found error for that name, and
\* no capability is invoked for it; the loop goes on as for any batch: the
\* error is sent back in the next Turn's message (or the turn budget ends)
\* and turnsRemaining decreases by exactly 1 for that turn.
C14_NotFoundEntries ==
  \A d \in Dispatches :
    /\ \A i \in 1..Len(d.results) :
         ~Registered(d.results[i].toolCall.name) =>
           /\ d.results[i].result = Null
           /\ d.results[i].error =
                [t |-> "str", v |-> "Tool " \o d.results[i].toolCall.name \o " not found"]
    /\ d.running => Registered(d.batch[d.idx].name)
C14_Step ==
  /\ loop.pc \in {"turn", "exec"} /\ loop'.pc = "turn" /\ loop'.turns = loop.turns + 1
     /\ (\E k \in 1..Len(loop'.lastMessage.parts) :
           ~Registered(loop'.lastMessage.parts[k].name)) =>
       /\ loop'.turnsRemaining = loop.turnsRemaining - 1
       /\ \A k \in 1..Len(loop'.lastMessage.parts) :
            ~Registered(loop'.lastMessage.parts[k].name) =>
              loop'.lastMessage.parts[k].response =
                [t |-> "str",
                 v |-> "Error: Tool " \o loop'.lastMessage.parts[k].name \o " not found"]
  /\ loop.pc = "exec" /\ loop'.pc # "exec"
     /\ (\E i \in 1..Len(loop.batch) : ~Registered(loop.batch[i].name)) =>
       /\ loop'.pc \in {"turn", "summary", "returned"}
       /\ loop'.pc \in {"turn", "summary"} => loop'.turnsRemaining = loop.turnsRemaining - 1
       /\ loop'.pc = "returned" => loop'.turnsRemaining = loop.turnsRemaining
C14_NotFoundContinues == [](C14_NotFoundEntries) /\ [][C14_Step]_vars

C14_Witness ==
  /\ loop.pc = "turn"
  /\ loop.turns = 2
  /\ loop.turnsRemaining = maxTurns - 1
  /\ Len(loop.lastMessage.parts) = 2
  /\ loop.lastMessage.parts[1].name = "ghost"
  /\ loop.lastMessage.parts[2].name = "read_file"

\* C15 as stated: when an outcome of a batch decodes as a return signal, no
\* capability is invoked for the requests positioned after it in the batch.
C15_Original ==
  \A d \in Dispatches :
    \A i \in 1..Len(d.results) :
      Decodes(d.results[i]) =>
        /\ ~d.running
        /\ \A j \in (i + 1)..Len(d.results) : ~Registered(d.results[j].toolCall.name)

\* C15 amended: when an outcome of a batch decodes as a return signal, the
\* requests positioned after it are dispatched all the same, each registered
\* one being invoked, before the outcomes are scanned; their outcomes are
\* discarded: the first outcome that decodes, in request order, is returned.
C15_LaterOutcomesDiscarded ==
  \A d \in Dispatches :
    d.finished /\ (\E i \in 1..Len(d.results) : Decodes(d.results[i])) =>
      /\ Len(d.results) = Len(d.batch)
      /\ \A j \in 1..Len(d.batch) :
           Registered(d.batch[j].name) =>
             d.results[j].toolCall = d.batch[j] /\ Invoked(d.results[j])
      /\ IsFirstDecoded(d.results, d.ret)

C15_Witness ==
  /\ loop.pc = "returned"
  /\ Len(loop.batch) = 2
  /\ loop.batch[1].name = "return_from_task"
  /\ loop.batch[2].name = "read_file"
  /\ Decodes(loop.results[1])
  /\ IsErrorEntry(loop.results[2])
  /\ loop.ret = checkForAgentReturn(loop.results[1].result.llmContent)

\* C19: a Turn of the main loop that raises is not retried: the loop starts
\* no further Turn, no summarization Turn is started for the session, and
\* run rejects with that error (which handleAgentSpawn's catch receives).
C19_RaisedTurnRejects ==
  race = "loopThrew" =>
    /\ loop.pc = "threw"
    /\ loop.turns = maxTurns - loop.turnsRemaining + 1
    /\ \A c \in Callers : summary[c].pc = "idle"
    /\ hpc = "done"
    /\ handlerResult = HandlerCatch(loop.fault)

\* C31: the first iteration sends the task message; after a Turn without
\* return signal the next message is the converted outcomes, one part per
\* request in request order, if the Turn made a request, else the
\* continue-or-return nudge if its content was not blank, else the generic
\* continuation nudge.
C31_AfterTurn(modelResponse, toolCallRequests) ==
  LET next == LoopAfterTurn(loop, modelResponse, toolCallRequests, warningFired)
  IN next.pc = "turn" /\ next.turns > loop.turns =>
       IF Len(toolCallRequests) > 0
       THEN /\ next.lastMessage.kind = "functionResponses"
            /\ Len(next.lastMessage.parts) = Len(toolCallRequests)
            /\ \A i \in 1..Len(toolCallRequests) :
                 /\ next.lastMessage.parts[i].callId = i
                 /\ next.lastMessage.parts[i].name = toolCallRequests[i].name
       ELSE IF modelResponse \notin {"", "  "}
            THEN next.lastMessage = NudgeReturnMessage
            ELSE next.lastMessage = NudgeContinueMessage

C31_AfterCall(outcome) ==
  LET next == LoopAfterCall(loop, outcome, warningFired)
  IN next.pc = "turn" /\ next.turns > loop.turns =>
       /\ next.lastMessage.kind = "functionResponses"
       /\ Len(next.lastMessage.parts) = Len(loop.batch)
       /\ \A i \in 1..Len(loop.batch) :
            /\ next.lastMessage.parts[i].callId = i
            /\ next.lastMessage.parts[i].name = loop.batch[i].name
       /\ \A i \in 1..Len(loop.results) :
            next.lastMessage.parts[i] \in
              {[name |-> loop.results[i].toolCall.name, callId |-> i,
                response |-> IF loop.results[i].result # Null
                             THEN loop.results[i].result.llmContent
                             ELSE JStr("Error: " \o loop.results[i].error.v)]}

C31_State ==
  /\ loop.pc = "turn" /\ loop.turns = 1 => loop.lastMessage.kind = "task"
  /\ loop.pc = "turn" =>
       \A toolCallRequests \in Batches, modelResponse \in Contents :
         C31_AfterTurn(modelResponse, toolCallRequests)
  /\ loop.pc = "exec" =>
       \A outcome \in ExecuteOutcomes(loop.batch[loop.idx]) : C31_AfterCall(outcome)

C31_Step ==
  loop'.pc = "turn" /\ loop'.turns > loop.turns /\ loop.turns > 0 =>
    loop'.lastMessage.kind \in {"functionResponses", "continueOrReturn", "continue"}

C32_WarningOnlyOnFirstMessage ==
  /\ loop.pc = "turn" /\ loop.lastMessage.warned => loop.turns = 1
  /\ ~SummaryPrompt.warned

\* C35: run completes, with the loop having run maxTurns Turns at most, and
\* the race it awaits is settled.
C35_RunCompletes ==
  /\ [](loop.turns <= maxTurns)
  /\ <>(hpc = "done" /\ handlerResult # Null)
  /\ (hpc = "racing" ~> race # "pending")

\* run has completed by the deadline although the loop's budget is not used
\* up.
C35_Witness ==
  /\ hpc = "done"
  /\ race = "timer"
  /\ loop.pc = "turn"
  /\ loop.turnsRemaining > 1
  /\ summary["run"].pc = "done"

\* C33: the loop and the summarization yield a return signal only from a
\* batch that held a request for return_from_task.
C33_SignalOnlyFromReturnTool ==
  /\ LoopReturnedSignal =>
       \E i \in 1..Len(loop.batch) : loop.batch[i].name = "return_from_task"
  /\ \A c \in Callers :
       summary[c].pc = "done" /\ ScanForReturn(summary[c].results, 1) # Null =>
         \E i \in 1..Len(summary[c].batch) : summary[c].batch[i].name = "return_from_task"

\* C34: when the loop's promise has settled the race, the firing of the
\* deadline timer changes nothing of the session but the timer.
C34_Step ==
  deadlineTimer = "armed" /\ deadlineTimer' = "fired" /\ race \in {"loop", "loopThrew"} =>
    UNCHANGED <<hpc, race, loop, summary, handlerResult, warningTimeout, warningFired>>

C34_LateDeadlineHasNoEffect == [][C34_Step]_vars

\* The deadline timer has fired after the loop returned.
C34_Witness ==
  deadlineTimer = "fired" /\ race = "loop" /\ hpc = "done" /\ handlerResult # Null

(***************************************************************************)
(* Properties of the registries (RegistrySpec).                            *)
(***************************************************************************)
\* How many tools of the registry are registered under the name.
Count(registry, name) ==
  Cardinality({i \in 1..Len(registry) : registry[i].name = name})
\* The tool instances reachable from the registry of an owner.
Instances(owner) == {RegistryOf(owner)[i] : i \in 1..Len(RegistryOf(owner))}

ObservedTaskCounter(owner, counter) ==
  LET tool == getTool(RegistryOf(owner), "task_tracker")
  IN IF tool = Null THEN 0 ELSE counter[tool.owner]

C20_CallChangesOneObserver ==
  \A o1, o2 \in Owners :
    (/\ ObservedTaskCounter(o1, taskCounter') # ObservedTaskCounter(o1, taskCounter)
     /\ ObservedTaskCounter(o2, taskCounter') # ObservedTaskCounter(o2, taskCounter))
    => o1 = o2

\* C20: the parent and the sessions share no tool instance: no instance
\* reachable from the registry of one is reachable from the registry of
\* another, and a task tracker call made by one changes the task counter
\* that no other observes.
C20_SessionsShareNoInstance ==
  /\ [](\A o1, o2 \in Owners : o1 # o2 => Instances(o1) \cap Instances(o2) = {})
  /\ [][UNCHANGED <<parentRegistry, sessionRegistry>> => C20_CallChangesOneObserver]_vars

(***************************************************************************)
(* Properties of the conversation histories (HistorySpec).                 *)
(***************************************************************************)
\* C21: no step of a sub-agent session (the construction of its chat, a
\* Turn on it) changes the history array handed to the runner: it keeps its
\* length and its elements, while the session's own copy grows.
C21_ParentHistoryKept ==
  [][arrays'[parentHistory'] = arrays[parentHistory]]_vars

C21_Witness ==
  /\ Len(arrays[parentHistory]) = MaxHistory
  /\ \A s \in Sessions :
       /\ chatHistory[s] \notin {0, parentHistory}
       /\ Len(arrays[chatHistory[s]]) = MaxHistory + 2 * MaxChildTurns

(***************************************************************************)
(* Properties of formatAgentResult (FormatSpec).                           *)
(***************************************************************************)
\* sub occurs in text as a run of consecutive pieces.
Contains(text, sub) ==
  \E i \in 0..(Len(text) - Len(sub)) : SubSeq(text, i + 1, i + Len(sub)) = sub
EndsWith(text, sub) ==
  /\ Len(sub) <= Len(text)
  /\ SubSeq(text, Len(text) - Len(sub) + 1, Len(text)) = sub

\* C22: for a result that is present, formatAgentResult returns one content
\* of role model with one text part; the text contains the task label, the
\* success flag and the description, and ends with the Result section
\* holding the result exactly when the result is not empty.
C22_FormatShowsResultIffPresent ==
  (formatted # Null /\ agentResult # Null) =>
    LET content == formatted.content
        text == content.parts[1].text
    IN /\ content.role = "model"
       /\ Len(content.parts) = 1
       /\ Contains(text, Pieces(formatted.task))
       /\ Contains(text, <<"\"\nSuccess: ", agentResult.success.v, "\nSummary: ">>)
       /\ Contains(text, Pieces(agentResult.description.v))
       /\ EndsWith(text, <<"\nResult:\n">> \o Pieces(agentResult.result.v))
            <=> (agentResult.result.t = "str" /\ agentResult.result.v # "")

C22_Witness ==
  /\ formatted # Null
  /\ agentResult # Null
  /\ agentResult.result = JStr("")
  /\ agentResult.description = JStr("Result: none")
  /\ formatted.task = "Test task"

(***************************************************************************)
(* Properties of the runner that reports status updates (TurnSpec).        *)
(***************************************************************************)
Unobserved(st) == [st EXCEPT !.log = <<>>]
StatusKinds(log) == {log[i].status : i \in 1..Len(log)}

C30_EveryOutcomeAnswered ==
  \A o \in Observers :
    (observed[o].next # Null /\ observed[o].next.kind = "functionResponses") =>
      LET st == observed[o]
      IN /\ Len(st.next.parts) = Len(st.toolCalls)
         /\ \A i \in 1..Len(st.next.parts) :
              /\ st.next.parts[i].callId = st.toolCalls[i].callId
              /\ st.next.parts[i].name = st.toolCalls[i].name
              /\ st.next.parts[i].response =
                   IF st.results[i].result # Null THEN st.results[i].result.llmContent
                   ELSE JStr("Error: " \o st.results[i].error.v)

(***************************************************************************)
(* Properties of the file capability (FileSpec).                           *)
(***************************************************************************)
\* The file a request names: its path resolved against the root when it is
\* relative, '..' segments resolved.
RequestedFile(args) ==
  IF args.path.absolute THEN Normalize(args.path.segs, <<>>)
  ELSE Normalize(RootPath.segs \o args.path.segs, <<>>)
InsideRoot(file) ==
  /\ Len(file) >= Len(RootPath.segs)
  /\ SubSeq(file, 1, Len(RootPath.segs)) = RootPath.segs

\* C24: a well-formed request to FileTool.execute whose file does not lie
\* inside the root directory is answered with the 'Path must be within
\* project root' error, and no access to the file system is made for it.
C24_OutsideRootRejected ==
  (/\ fileTool = "FileTool"
   /\ validateAndParseArgs(fileRequest) = ""
   /\ ~InsideRoot(RequestedFile(fileRequest))) =>
    /\ fileOutcome = FileResult("error", "Path must be within project root")
    /\ fileOutcome.accesses = <<>>

Restricted == {"RestrictedFileTool", "RestrictedFileTool (parsing)"}

\* C25 as stated: a request to RestrictedFileTool whose operation is not
\* 'read' is answered with an error result and is not delegated.
C25_Original ==
  (fileTool \in Restricted /\ fileRequest.operation # "read") =>
    /\ fileOutcome.k = "ok"
    /\ fileOutcome.status = "error"
    /\ ~fileOutcome.delegated

\* C25: a request to RestrictedFileTool whose operation is not 'read' is
\* never delegated to FileTool.execute and makes no access to the file
\* system; it is answered with the 'not allowed' error result, or, by the
\* class that parses its arguments first, with the error that parsing
\* throws for malformed arguments.
C25_OnlyReadsDelegated ==
  (fileTool \in Restricted /\ fileRequest.operation # "read") =>
    /\ ~fileOutcome.delegated
    /\ fileOutcome.accesses = <<>>
    /\ \/ fileOutcome = NotAllowed
       \/ /\ fileTool = "RestrictedFileTool (parsing)"
          /\ fileOutcome.k = "throw"
          /\ fileOutcome.message = validateAndParseArgs(fileRequest)
          /\ fileOutcome.message # ""

C25_Witness ==
  /\ fileTool = "RestrictedFileTool (parsing)"
  /\ fileRequest.operation = "write"
  /\ InsideRoot(RequestedFile(fileRequest))
  /\ fileOutcome = NotAllowed

(***************************************************************************)
(* Properties of the task tracker (TaskSpec, TaskUpdateSpec).              *)
(***************************************************************************)
IdsOf(tasks) == [i \in 1..Len(tasks) |-> tasks[i].id]
Distinct(ids) == \A i, j \in 1..Len(ids) : ids[i] = ids[j] => i = j
\* The n most recent entries of a log, most recent first.
Recent(log, n) ==
  [i \in 1..(IF Len(log) < n THEN Len(log) ELSE n) |-> log[Len(log) - i + 1]]

C26_IdsIssued ==
  LET ids == IdsOf(taskList.pending) \o IdsOf(taskList.completed)
  IN /\ Distinct(ids)
     /\ \A i \in 1..Len(ids) : ids[i] \in 1..taskIds
C26_Step ==
  IF taskResult'.operation = "add" /\ taskResult'.error = ""
  THEN /\ taskIds' = taskIds + 1
       /\ taskResult'.issued = taskIds'
       /\ PendingIds(taskList') = PendingIds(taskList) \cup {taskIds'}
  ELSE /\ taskIds' = taskIds
       /\ PendingIds(taskList') \subseteq PendingIds(taskList)

C27_CompletedAreMostRecent ==
  taskList # Null =>
    /\ Len(taskList.completed) <= MAX_COMPLETED_TASKS
    /\ IdsOf(taskList.completed) = Recent(completedLog, MAX_COMPLETED_TASKS)

C27_Witness ==
  /\ Len(completedLog) > MAX_COMPLETED_TASKS
  /\ completedLog[1] # 1
  /\ Len(taskList.completed) = MAX_COMPLETED_TASKS

C28_Step ==
  taskResult'.operation = "update" =>
    IF taskResult'.id \in PendingIds(taskList)
    THEN /\ taskList'.completed = taskList.completed
         /\ IdsOf(taskList'.pending) = IdsOf(taskList.pending)
         /\ \A i \in 1..Len(taskList.pending) :
              taskList.pending[i].id # taskResult'.id =>
                taskList'.pending[i] = taskList.pending[i]
    ELSE /\ taskResult'.error # ""
         /\ taskList' = taskList

\* C28: an update that names no pending task (a completed task, an unknown
\* id, no id) is answered with an error and changes neither list; an update
\* of a pending task changes nothing but that task.
C28_UpdateOnlyPending == [][C28_Step]_vars

C28_Witness ==
  /\ taskResult # Null
  /\ taskResult.operation = "update"
  /\ taskResult.error # ""
  /\ \E i \in 1..Len(taskList.completed) : taskList.completed[i].id = taskResult.id
  /\ \E i \in 1..Len(taskList.pending) : taskList.pending[i].description = "Updated"

\* C39: a call that validation rejects answers with an error and leaves
\* the pending tasks, the completed tasks and the ID counter as they were,
\* and so does every list call.
C39_Step ==
  LET pending == PendingIds(taskList) IN
  /\ taskResult'.error # "" \/ taskResult'.operation = "list" =>
       UNCHANGED <<taskList, taskIds, completedLog>>
  /\ taskResult'.operation \in {"complete", "update"} /\ taskResult'.id # 0
       /\ taskResult'.id \notin pending => taskResult'.error # ""
  /\ taskResult'.operation = "complete" /\ taskResult'.id = 0 /\ pending = {} =>
       taskResult'.error # ""
  /\ taskResult'.operation = "update" /\ taskResult'.id = 0 => taskResult'.error # ""
  /\ taskResult'.operation = "add" /\ taskResult'.error = "" =>
       Len(taskList'.pending) = Len(taskList.pending) + 1

C39_RejectedCallsChangeNothing == [][C39_Step]_vars

\* A complete call naming an unknown task was rejected while tasks were
\* pending and completed.
C39_Witness ==
  /\ taskResult # Null
  /\ taskResult.operation = "complete"
  /\ taskResult.error = "Task not found in pending tasks"
  /\ Len(taskList.pending) > 0
  /\ Len(taskList.completed) > 0

(***************************************************************************)
(* Properties of FileTool.edit (EditSpec).                                 *)
(***************************************************************************)
ChangesOf(operations) ==
  {i \in 1..Len(editCall.changes) : editCall.changes[i].operation \in operations}

\* C36: a call one of whose changes is rejected returns an error and writes
\* nothing; writeFile is called once at most, with the lines that every
\* change has been applied to.
C36_EditIsAllOrNothing ==
  editCall # Null =>
    /\ editWrites <= 1
    /\ editWrites = 1 => editCall.pc \in {"writing", "done"} /\ editCall.original # <<>>
    /\ editCall.pc = "writing" => editWrites = 1
    /\ editCall.pc = "done" /\ editCall.result.kind \in {"range", "unknown"} =>
         /\ editCall.result.status = "error"
         /\ editWrites = 0
         /\ editDisk = Disk(TRUE, editCall.original)
    /\ editCall.pc = "done" /\ editCall.original # <<>>
         /\ (\/ ChangesOf({"move"}) # {}
             \/ \E i \in ChangesOf({"replace", "delete"}) : editCall.changes[i].line < 1) =>
         /\ editCall.result.kind \in {"range", "unknown"}
         /\ editWrites = 0
    /\ editWrites = 1 =>
         /\ ChangesOf({"move"}) = {}
         /\ Len(editCall.toWrite) = Len(editCall.original)
              + Cardinality(ChangesOf({"insert"})) - Cardinality(ChangesOf({"delete"}))
    /\ editCall.pc = "done" /\ editCall.result.status = "success" =>
         editWrites = 1 /\ editDisk = Disk(TRUE, editCall.toWrite)

\* The second of two changes was rejected, the first having been applied in
\* memory.
C36_Witness ==
  /\ editCall # Null
  /\ editCall.pc = "done"
  /\ editCall.result.kind = "range"
  /\ Len(editCall.changes) = 2
  /\ \E i \in 1..2 : /\ editCall.changes[i].operation = "insert"
                     /\ editCall.changes[i].line > editCall.changes[3 - i].line
  /\ editDisk = Disk(TRUE, editCall.original)

(***************************************************************************)
(* Properties of FileMemory (FileMemorySpec, SummaryCacheSpec).            *)
(***************************************************************************)
\* C37: the memory never tracks more than MAX_FILES files, whatever the
\* operations called on it.
C37_TrackedFilesBounded == Len(memory) <= MAX_FILES

\* C38: a tracked file never holds more than MAX_SUMMARIES_PER_FILE
\* summaries, whatever the prompts cacheSummary is called with.
C38_SummariesBounded ==
  \A i \in 1..Len(memory) : Len(memory[i].summaries) <= MAX_SUMMARIES_PER_FILE

(***************************************************************************)
(* Properties of OutputSummarizer (SummarizerSpec).                        *)
(***************************************************************************)
SummaryFailures == {"missing", "throws", "no text", "rejects", "aborted"}

\* C29: summarizeIfNeeded never raises; a content whose stripped length is
\* at most maxAllowedCharacters is returned unsummarized, stripped, and
\* without asking for the model client; and when the client is missing, the
\* model call fails, gives no text or is aborted by its timeout, the call
\* returns the fallback summary with isSummarized = TRUE.
C29_SummarizeNeverRaises ==
  LET cleanContent == stripAnsi(summaryCall.content)
  IN summaryCall # Null =>
       /\ summaryCall.pc # "raised"
       /\ summaryCall.pc = "returned" =>
            /\ Len(cleanContent) <= summaryCall.maxAllowedCharacters =>
                 /\ summaryCall.result = Unsummarized(cleanContent)
                 /\ summaryCall.contacts = 0
            /\ Len(cleanContent) > summaryCall.maxAllowedCharacters =>
                 /\ summaryCall.contacts = 1
                 /\ summaryCall.result.isSummarized
                 /\ summaryCall.timer # "armed"
                 /\ summaryCall.settled \in SummaryFailures <=> summaryCall.result.fallback

\* A call whose model call was aborted by the timeout has returned.
C29_Witness ==
  /\ summaryCall # Null
  /\ summaryCall.pc = "returned"
  /\ summaryCall.settled = "aborted"
  /\ summaryCall.result.fallback

(***************************************************************************)
(* Properties of the signalling protocol (CodecSpec).                      *)
(***************************************************************************)
\* The payloads the encoders produce for well-typed parameters.
IsString(value) == value.t = "str"
IsReturnEncoding(llmContent) ==
  /\ llmContent.shape = "parts"
  /\ llmContent.text.t = "json"
  /\ DOMAIN llmContent.text.v = {"type", "success", "description", "result"}
  /\ llmContent.text.v["type"] = [t |-> "str", v |-> "agent_return"]
  /\ llmContent.text.v["success"].t = "bool"
  /\ IsString(llmContent.text.v["description"]) /\ IsString(llmContent.text.v["result"])
IsSpawnEncoding(llmContent) ==
  /\ llmContent.shape = "parts"
  /\ llmContent.text.t = "json"
  /\ DOMAIN llmContent.text.v = {"type", "task", "prompt", "maxTurns", "timeoutMs"}
  /\ llmContent.text.v["type"] = [t |-> "str", v |-> "spawn_agent"]
  /\ IsString(llmContent.text.v["task"]) /\ IsString(llmContent.text.v["prompt"])
  /\ llmContent.text.v["maxTurns"].t = "num" /\ llmContent.text.v["timeoutMs"].t = "num"

\* C16: the decoders fail closed: for a payload that the corresponding
\* encoder did not produce (no JSON, JSON that is no object, no or another
\* type tag, the right tag with fields missing or of another type),
\* checkForAgentReturn and isAgentSpawnRequest return null.
C16_DecodersFailClosed ==
  decoded # Null =>
    /\ ~IsReturnEncoding(payload) => decoded.agentReturn = Null
    /\ ~IsSpawnEncoding(payload) => decoded.spawn = Null

\* C17: for every return signal v, checkForAgentReturn (the decoder with
\* defaults) applied to the payload of ReturnFromTaskTool.execute(v) gives v.
C17_ReturnRoundTrip ==
  decoded # Null /\ origin.by = "return_from_task" =>
    decoded.agentReturnDefaulting = origin.params

\* C18: for every TaskAgentParams p, isAgentSpawnRequest applied to the
\* response carrying the payload of TaskAgentTool.execute(p) gives a request
\* of type 'spawn_agent' with p's task and prompt, p's maxTurns when given
\* and 20 otherwise, p's timeoutMs when given and 300000 otherwise.
C18_SpawnRoundTrip ==
  decoded # Null /\ origin.by = "task_agent" =>
    /\ decoded.spawn # Null
    /\ DOMAIN decoded.spawn = {"type", "task", "prompt", "maxTurns", "timeoutMs"}
    /\ decoded.spawn["type"] = [t |-> "str", v |-> "spawn_agent"]
    /\ decoded.spawn["task"] = origin.params.task
    /\ decoded.spawn["prompt"] = origin.params.prompt
    /\ decoded.spawn["maxTurns"] =
         IF origin.params.maxTurns.t = "undefined" THEN [t |-> "num", v |-> "20"]
         ELSE origin.params.maxTurns
    /\ decoded.spawn["timeoutMs"] =
         IF origin.params.timeoutMs.t = "undefined" THEN [t |-> "num", v |-> "300000"]
         ELSE origin.params.timeoutMs

C18_Witness ==
  /\ decoded # Null
  /\ origin.by = "task_agent"
  /\ origin.params.maxTurns = [t |-> "num", v |-> "0"]
  /\ origin.params.timeoutMs.t = "undefined"
  /\ decoded.spawn # Null
====
